---- MODULE Spec2Model ----
(***************************************************************************)
(* ibtop: the state coordinator (App), its event fan-in (EventHandler),    *)
(* the discovery service and the counter service, as one state machine.    *)
(*                                                                         *)
(* Strings that the program inspects character by character (node          *)
(* descriptions, the search filter) are sequences of one-character         *)
(* strings; all other strings are TLA+ strings.  A counter store is a      *)
(* function from <<lid, port>> pairs to counter records; a counter record  *)
(* is a function from counter names to naturals.                           *)
(***************************************************************************)
EXTENDS Integers, Sequences, FiniteSets, TLC

VARIABLES
    config,                  \* App.config: update_interval, include_hcas, threads
    running,                 \* App.running
    nodes,                   \* App.nodes
    selected_node,           \* App.selected_node: <<>> (None) or <<row>> (Some)
    display_counters,        \* App.display_counters
    current_counters,        \* App.current_counters
    previous_counters,       \* App.previous_counters
    baseline_counters,       \* App.baseline_counters
    pending_counter_update,  \* App.pending_counter_update
    counter_mode,            \* App.counter_mode
    status,                  \* App.status
    tick,                    \* App.tick
    auto_update,             \* App.auto_update
    auto_update_interval,    \* App.auto_update_interval
    auto_update_counter,     \* App.auto_update_counter
    sort_column,             \* App.sort_column
    sort_ascending,          \* App.sort_ascending
    search_value,            \* App.search_form.value
    table_offset,            \* App.table_offset
    popup_table_offset,      \* App.popup_table_offset
    popup_selected,          \* App.popup_selected
    visible_rows,            \* App.visible_rows (written by the view)
    selected,                \* App.selected
    active_popup,            \* App.active_popup
    receiver,                \* EventHandler.receiver: the AppEvents queued in it
    ev_disc,                 \* disc_tx -> ev_disc_rx: the discovery inbox
    disc_rx,                 \* disc_ev_tx -> disc_rx: the discovery replies
    ev_ctr,                  \* ctr_tx -> ev_ctr_rx: the counter inbox
    ctr_rx,                  \* ctr_ev_tx -> ctr_rx: the counter replies
    disc_pc,                 \* discovery service: "recv", "get_nodes", "exited"
    ctr_pc,                  \* counter service: "recv", "get_counters", "exited"
    ctr_req,                 \* the targets of the request in service
    pool,                    \* get_counters in progress: the rayon pool, its
                             \* workers and the MAD ports they opened
    elapsed                  \* TestCountersService: start.elapsed().as_secs()
                             \* at its last get_counters

appVars == <<config, running, nodes, selected_node, display_counters, current_counters,
             previous_counters, baseline_counters, pending_counter_update,
             counter_mode, status, tick, auto_update, auto_update_interval,
             auto_update_counter, sort_column, sort_ascending, search_value,
             table_offset, popup_table_offset, popup_selected, visible_rows,
             selected, active_popup>>

chanVars == <<receiver, ev_disc, disc_rx, ev_ctr, ctr_rx>>

svcVars == <<disc_pc, ctr_pc, ctr_req, pool, elapsed>>

vars == <<appVars, chanVars, svcVars>>

----------------------------------------------------------------------------
(* Program constants *)

AGG_COUNTERS_PORT == 255

TICK_RESET_INTERVAL == 30

MAX_SORT_COLUMNS == 9

UPDATE_INTERVAL_DEFAULT == 2

ERROR_COUNTERS ==
    << "symbol_errors", "link_recovers", "link_downed", "rcv_errors",
       "phys_rcv_errors", "switch_rel_errors", "rcv_local_phy_errors",
       "rcv_malformed_pkt_errors", "excess_overrun_errors", "vl15dropped",
       "qp1_drops" >>

(* Bounds of the model *)

\* discovery requests and replies outstanding at a time
MaxDiscQueue == 2

\* Quit events the coordinator may have queued in its own channel
MaxQuit == 1

\* the largest counter value the transport reports
MaxVal == 2

\* auto_update_counter is not advanced beyond this value
MaxAutoCounter == 2

\* the longest search filter typed
MaxFilterLen == 1

\* the height of the terminal, where a scenario has one height
TermHeight == 10

----------------------------------------------------------------------------
(* Arithmetic of usize *)

Min(a, b) == IF a <= b THEN a ELSE b

Max(a, b) == IF a >= b THEN a ELSE b

SatSub(a, b) == IF a >= b THEN a - b ELSE 0

Range(s) == {s[i] : i \in 1..Len(s)}

EmptyStore == <<>>

Status(m, n) == [msg |-> m, n |-> n, desc |-> <<>>]

StatusDesc(d) == [msg |-> "node_description", n |-> 0, desc |-> d]

----------------------------------------------------------------------------
(* The search filter: regex::RegexBuilder::new(value).case_insensitive(true), *)
(* with Regex::new("") when the pattern does not compile.  The characters    *)
(* typed are letters, which match themselves in either case, and "(", which  *)
(* opens a group that is never closed and so makes the pattern invalid.      *)

FilterChars == {"a", "b", "A", "("}

Lower(c) == IF c = "A" THEN "a" ELSE IF c = "B" THEN "b" ELSE c

ValidRegex(value) == \A i \in 1..Len(value) : value[i] # "("

\* re.is_match(&n.node_description): an unanchored search
IsMatch(value, desc) ==
    IF ~ValidRegex(value)
    THEN TRUE
    ELSE \E i \in 0..(Len(desc) - Len(value)) :
            \A j \in 1..Len(value) : Lower(desc[i + j]) = Lower(value[j])

Filtered(nds, value) ==
    SelectSeq(nds, LAMBDA n : IsMatch(value, n.node_description))

\* filtered_len as it would be if a pattern that does not compile matched
\* nothing
filtered_len_invalid_matches_none(nds, value) ==
    IF ValidRegex(value) THEN Len(Filtered(nds, value)) ELSE 0

filtered_len(nds, value) == Len(Filtered(nds, value))

----------------------------------------------------------------------------
(* Metrics.  An f64 metric is the fraction num/den of naturals (times a    *)
(* constant factor common to all rows): den = 0 gives +inf for num > 0 and *)
(* NaN for num = 0, as the division does.                                  *)

Frac(n, d) == [num |-> n, den |-> d]

TimeDelta(perfcounters, mode) ==
    IF mode = "Delta"
    THEN (IF "end_timestamp" \in DOMAIN perfcounters
          THEN perfcounters["end_timestamp"] ELSE 1)
    ELSE 1

get_bw(perfcounters, counter, mode) ==
    IF counter \in DOMAIN perfcounters
    THEN Frac(perfcounters[counter] * 4 * 8, TimeDelta(perfcounters, mode))
    ELSE Frac(0, 1)

get_bw_loss(perfcounters, counter, mode) ==
    IF counter \in DOMAIN perfcounters
    THEN Frac(perfcounters[counter] * 64, TimeDelta(perfcounters, mode))
    ELSE Frac(0, 1)

RECURSIVE SumSeq(_)
SumSeq(s) == IF s = <<>> THEN 0 ELSE Head(s) + SumSeq(Tail(s))

count_errors(perfcounters) ==
    SumSeq([i \in 1..Len(ERROR_COUNTERS) |->
              IF ERROR_COUNTERS[i] \in DOMAIN perfcounters
              THEN perfcounters[ERROR_COUNTERS[i]] ELSE 0])

\* the names joined by ","; kept as the sequence of the names
get_error_strings(perfcounters) ==
    SelectSeq(ERROR_COUNTERS,
              LAMBDA e : e \in DOMAIN perfcounters /\ perfcounters[e] > 0)

----------------------------------------------------------------------------
(* Orderings: -1 (Less), 0 (Equal), 1 (Greater) *)

CmpInt(a, b) == IF a < b THEN -1 ELSE IF a > b THEN 1 ELSE 0

IsNaN(x) == x.num = 0 /\ x.den = 0

\* a.partial_cmp(&b).unwrap_or(Ordering::Equal)
CmpF64(a, b) ==
    IF IsNaN(a) \/ IsNaN(b) THEN 0 ELSE CmpInt(a.num * b.den, b.num * a.den)

CharCode(c) ==
    CASE c = "(" -> 40
      [] c = "A" -> 65
      [] c = "B" -> 66
      [] c = "a" -> 97
      [] c = "b" -> 98
      [] OTHER -> 0

\* the rank of an error counter's name in byte order
NameRank(e) ==
    CASE e = "excess_overrun_errors" -> 1
      [] e = "link_downed" -> 2
      [] e = "link_recovers" -> 3
      [] e = "phys_rcv_errors" -> 4
      [] e = "qp1_drops" -> 5
      [] e = "rcv_errors" -> 6
      [] e = "rcv_local_phy_errors" -> 7
      [] e = "rcv_malformed_pkt_errors" -> 8
      [] e = "switch_rel_errors" -> 9
      [] e = "symbol_errors" -> 10
      [] e = "vl15dropped" -> 11
      [] OTHER -> 0

RECURSIVE CmpLex(_, _)
\* String::cmp on the byte codes: lexicographic, a proper prefix is Less
CmpLex(a, b) ==
    IF a = <<>> /\ b = <<>> THEN 0
    ELSE IF a = <<>> THEN -1
    ELSE IF b = <<>> THEN 1
    ELSE IF Head(a) # Head(b) THEN CmpInt(Head(a), Head(b))
    ELSE CmpLex(Tail(a), Tail(b))

CmpDesc(a, b) ==
    CmpLex([i \in 1..Len(a) |-> CharCode(a[i])], [i \in 1..Len(b) |-> CharCode(b[i])])

CmpErrorStrings(a, b) ==
    CmpLex([i \in 1..Len(a) |-> NameRank(a[i])], [i \in 1..Len(b) |-> NameRank(b[i])])

\* the closure given to node_info.sort_by
RowOrdering(a, b, col, asc) ==
    LET ordering ==
          CASE col = 1 -> CmpInt(a.lid, b.lid)
            [] col = 2 -> CmpDesc(a.desc, b.desc)
            [] col = 3 -> CmpInt(a.nports, b.nports)
            [] col = 4 -> CmpF64(a.recv_bw, b.recv_bw)
            [] col = 5 -> CmpF64(a.xmt_bw, b.xmt_bw)
            [] col = 6 -> CmpF64(a.xmit_waits, b.xmit_waits)
            [] col = 7 -> CmpInt(a.error_count, b.error_count)
            [] col = 8 -> CmpErrorStrings(a.error_strings, b.error_strings)
            [] OTHER -> 0
    IN  IF asc THEN ordering ELSE 0 - ordering

\* slice::sort_by is stable: an element goes after those it is not Less than
InsertRow(sorted, row, col, asc) ==
    LET after == {i \in 1..Len(sorted) : RowOrdering(row, sorted[i], col, asc) >= 0}
        pos == IF after = {} THEN 0
               ELSE CHOOSE i \in after : \A j \in after : j <= i
    IN  SubSeq(sorted, 1, pos) \o <<row>> \o SubSeq(sorted, pos + 1, Len(sorted))

RECURSIVE SortRows(_, _, _)
SortRows(rows, col, asc) ==
    IF rows = <<>> THEN <<>>
    ELSE IF col \notin 1..8 THEN rows   \* every pair is Equal: nothing moves
    ELSE InsertRow(SortRows(SubSeq(rows, 1, Len(rows) - 1), col, asc),
                   rows[Len(rows)], col, asc)

\* one tuple of node_info
NodeRow(n, display, mode) ==
    LET key == <<n.lid, AGG_COUNTERS_PORT>>
        has == key \in DOMAIN display
    IN  [guid |-> n.guid,
         lid |-> n.lid,
         desc |-> n.node_description,
         nports |-> Len(n.ports),
         recv_bw |-> IF has THEN get_bw(display[key], "rcv_bytes", mode) ELSE Frac(0, 1),
         xmt_bw |-> IF has THEN get_bw(display[key], "xmt_bytes", mode) ELSE Frac(0, 1),
         xmit_waits |-> IF has THEN get_bw_loss(display[key], "xmit_waits", mode)
                        ELSE Frac(0, 1),
         error_count |-> IF has THEN count_errors(display[key]) ELSE 0,
         error_strings |-> IF has THEN get_error_strings(display[key]) ELSE <<>>]

\* the filtered, sorted rows of the main table
node_info(nds, value, display, mode, col, asc) ==
    LET f == Filtered(nds, value)
    IN  SortRows([i \in 1..Len(f) |-> NodeRow(f[i], display, mode)], col, asc)

\* set_selected_node_guid as it would be if it cached the last row
set_selected_node_guid_last_row(sel, rows) ==
    [selected |-> IF sel >= Len(rows) THEN SatSub(Len(rows), 1) ELSE sel,
     selected_node |-> IF rows = <<>> THEN <<>> ELSE <<rows[Len(rows)]>>]

\* set_selected_node_guid: the clamped selection and the cached row
set_selected_node_guid(sel, rows) ==
    LET s == IF sel >= Len(rows) THEN SatSub(Len(rows), 1) ELSE sel
    IN  [selected |-> s,
         selected_node |-> IF s < Len(rows) THEN <<rows[s + 1]>> ELSE <<>>]

\* ensure_selected_visible: the new table_offset
ensure_selected_visible(sel, offset, visible, len) ==
    LET vis == Max(visible, 1)
        max_offset == SatSub(len, vis)
    IN  IF sel < offset THEN Min(sel, max_offset)
        ELSE IF sel >= offset + vis THEN Min(SatSub(sel + 1, vis), max_offset)
        ELSE Min(offset, max_offset)

----------------------------------------------------------------------------
(* Counter stores *)

\* calc_counters_delta as it would be if it walked the old record
calc_counters_delta_over_old(old_map, new_map) ==
    [key \in DOMAIN old_map |->
        LET new_val == IF key \in DOMAIN new_map THEN new_map[key] ELSE 0
            old_val == old_map[key]
        IN  IF new_val >= old_val THEN SatSub(new_val, old_val) ELSE new_val]

\* calc_counters_delta as it would be with a saturating difference alone
calc_counters_delta_saturating(old_map, new_map) ==
    [key \in DOMAIN new_map |->
        LET new_val == new_map[key]
            old_val == IF key \in DOMAIN old_map THEN old_map[key] ELSE 0
        IN  SatSub(new_val, old_val)]

calc_counters_delta(old_map, new_map) ==
    [key \in DOMAIN new_map |->
        LET new_val == new_map[key]
            old_val == IF key \in DOMAIN old_map THEN old_map[key] ELSE 0
        IN  IF new_val >= old_val THEN SatSub(new_val, old_val) ELSE new_val]

\* the Delta and Baseline arms of handle_counters_update
DeltaStore(cur, old) ==
    [lp \in DOMAIN cur |->
        IF lp \in DOMAIN old THEN calc_counters_delta(old[lp], cur[lp]) ELSE cur[lp]]

\* display_counters as it would be if Whole mode took the Delta arm
DisplayFor_whole_as_delta(mode, cur, prev, base) ==
    CASE mode = "Whole" -> DeltaStore(cur, prev)
      [] mode = "Delta" -> DeltaStore(cur, prev)
      [] mode = "Baseline" -> DeltaStore(cur, base)

\* display_counters after handle_counters_update
DisplayFor(mode, cur, prev, base) ==
    CASE mode = "Whole" -> cur
      [] mode = "Delta" -> DeltaStore(cur, prev)
      [] mode = "Baseline" -> DeltaStore(cur, base)

\* the targets update_counters sends
AggregateTargets(nds) ==
    [i \in 1..Len(nds) |-> [lid |-> nds[i].lid, number |-> AGG_COUNTERS_PORT]]

\* the targets as they would be if update_counters never took the Details arm
lid_ports_aggregate(popup, sel_node, nds) == AggregateTargets(nds)

lid_ports(popup, sel_node, nds) ==
    IF popup = "Details" /\ sel_node # <<>>
          /\ \E i \in 1..Len(nds) : nds[i].guid = sel_node[1].guid
    THEN LET i == CHOOSE i \in 1..Len(nds) :
                     /\ nds[i].guid = sel_node[1].guid
                     /\ \A j \in 1..(i - 1) : nds[j].guid # sel_node[1].guid
             node == nds[i]
         IN  [p \in 1..Len(node.ports) |->
                 [lid |-> node.lid, number |-> node.ports[p].number]]
    ELSE AggregateTargets(nds)

----------------------------------------------------------------------------
(* Messages *)

DiscoveryRequest == [type |-> "Request"]

DiscoveryResponse(nds) == [type |-> "Response", nodes |-> nds]

CounterRequest(lps) == [type |-> "Request", lid_ports |-> lps]

CounterResponse(counters) == [type |-> "Response", counters |-> counters]

Exit == [type |-> "Exit"]

----------------------------------------------------------------------------
(* Discovery service *)

\* convert_ports: every port of the raw node, with the description of the
\* node at the other end of the link ("" when it cannot be resolved)
\* the and_then chain of convert_ports: the back-reference of the port, the
\* upgrade and read of the peer port, the upgrade and read of its parent node,
\* and the parent's optional description; unwrap_or_default gives ""
remote_desc(port) ==
    LET c == port.remote
    IN  IF /\ c.remote_port
           /\ c.peer_alive
           /\ c.peer_readable
           /\ c.parent_alive
           /\ c.parent_readable
           /\ c.description # <<>>
        THEN c.description[1]
        ELSE <<>>

\* convert_ports as it would be if a port without a resolvable peer were
\* left out
convert_ports_drops_unresolved(raw) ==
    LET keep == SelectSeq(raw.ports, LAMBDA p : remote_desc(p) # <<>>)
    IN  [i \in 1..Len(keep) |->
            [number |-> keep[i].number,
             remote_node_description |-> remote_desc(keep[i])]]

convert_ports(raw) ==
    [i \in 1..Len(raw.ports) |->
        [number |-> raw.ports[i].number,
         remote_node_description |-> remote_desc(raw.ports[i])]]

\* convert_fabric_nodes as it would be if a CA kept its ports
convert_node_keeps_ports(raw) ==
    [guid |-> raw.node_guid,
     node_description |-> raw.description,
     ports |-> convert_ports(raw),
     lid |-> raw.lid]

convert_node(raw) ==
    [guid |-> raw.node_guid,
     node_description |-> raw.description,
     ports |-> IF raw.node_type = "Switch" THEN convert_ports(raw) ELSE <<>>,
     lid |-> raw.lid]

convert_fabric_nodes(fabric_nodes, include_hcas) ==
    LET keep == SelectSeq(fabric_nodes,
                          LAMBDA raw : \/ raw.node_type = "Switch"
                                       \/ raw.node_type = "CA" /\ include_hcas)
    IN  [i \in 1..Len(keep) |-> convert_node(keep[i])]

\* get_nodes: opened is FALSE when the HCA, the SMP port or the agent fails;
\* fabric_nodes is what seq_discover left in fabric.nodes
get_nodes(opened, fabric_nodes, include_hcas) ==
    IF ~opened THEN <<>> ELSE convert_fabric_nodes(fabric_nodes, include_hcas)

----------------------------------------------------------------------------
(* Counter service *)

\* no get_counters is running: no pool, no worker, no MAD port
IdlePool ==
    [phase |-> "idle", size |-> 0, workers |-> <<>>, done |-> {},
     ports |-> <<>>, open_ok |-> {}, query_ok |-> {}, recs |-> <<>>]

ChunkSize(len, threads) == Max(len \div Max(threads, 1), 1)

ChunkOf(i, chunk_size) == ((i - 1) \div chunk_size) + 1

NumChunks(len, chunk_size) == (len + chunk_size - 1) \div chunk_size

\* get_counters as it would be if one worker's failure to open its port
\* discarded the whole sample
get_counters_all_or_nothing(lps, threads, opened, open_ok, query_ok, recs) ==
    LET cs == ChunkSize(Len(lps), threads)
        good == {i \in 1..Len(lps) : lps[i].number \in 0..255 /\ i \in query_ok}
        keys == {<<lps[i].lid, lps[i].number>> : i \in good}
        last(k) == CHOOSE i \in good :
                     /\ <<lps[i].lid, lps[i].number>> = k
                     /\ \A j \in good :
                          <<lps[j].lid, lps[j].number>> = k => j <= i
    IN  IF ~opened \/ open_ok # 1..NumChunks(Len(lps), cs) THEN EmptyStore
        ELSE [k \in keys |-> recs[last(k)]]

\* get_counters: opened is FALSE when the HCA or the thread pool fails;
\* open_ok are the chunks whose worker opens its port and registers its agent;
\* query_ok are the targets whose query succeeds; recs[i] is the record the
\* query of target i returns.  A later insert of a key replaces an earlier one.
get_counters(lps, threads, opened, open_ok, query_ok, recs) ==
    IF ~opened THEN EmptyStore
    ELSE LET cs == ChunkSize(Len(lps), threads)
             good == {i \in 1..Len(lps) :
                        /\ ChunkOf(i, cs) \in open_ok
                        /\ lps[i].number \in 0..255
                        /\ i \in query_ok}
             keys == {<<lps[i].lid, lps[i].number>> : i \in good}
             last(k) == CHOOSE i \in good :
                          /\ <<lps[i].lid, lps[i].number>> = k
                          /\ \A j \in good :
                               <<lps[j].lid, lps[j].number>> = k => j <= i
         IN  [k \in keys |-> recs[last(k)]]

----------------------------------------------------------------------------
(* The view: what a draw leaves in visible_rows for a terminal of height h *)

\* Layout::vertical([Length(3), Percentage(100), Length(3)])
TableAreaHeight(h) == SatSub(h, 6)

\* centered_rect_percent(_, DETAILS_POPUP_PERCENT_HEIGHT, area), inside its border
DetailsInnerHeight(h) == SatSub((h * 80) \div 100, 2)

Rendered(h) ==
    IF active_popup = "Details" /\ selected_node # <<>>
    THEN SatSub(DetailsInnerHeight(h), 1)
    ELSE SatSub(TableAreaHeight(h), 1)

----------------------------------------------------------------------------
(* Initial state: App::new, which spawns the services and calls           *)
(* discover_fabric                                                         *)

InitWith(configs) ==
    /\ config \in configs
    /\ running = TRUE
    /\ nodes = <<>>
    /\ selected_node = <<>>
    /\ display_counters = EmptyStore
    /\ current_counters = EmptyStore
    /\ previous_counters = EmptyStore
    /\ baseline_counters = EmptyStore
    /\ pending_counter_update = FALSE
    /\ counter_mode = "Whole"
    /\ status = Status("Discovering...", 0)
    /\ tick = 0
    /\ auto_update = FALSE
    /\ auto_update_interval = config.update_interval
    /\ auto_update_counter = 0
    /\ sort_column = 0
    /\ sort_ascending = FALSE
    /\ search_value = <<>>
    /\ table_offset = 0
    /\ popup_table_offset = 0
    /\ popup_selected = 0
    /\ visible_rows = 0
    /\ selected = 0
    /\ active_popup = "None"
    /\ receiver = <<>>
    /\ ev_disc = <<DiscoveryRequest>>
    /\ disc_rx = <<>>
    /\ ev_ctr = <<>>
    /\ ctr_rx = <<>>
    /\ disc_pc = "recv"
    /\ ctr_pc = "recv"
    /\ ctr_req = <<>>
    /\ pool = IdlePool
    /\ elapsed = 0

----------------------------------------------------------------------------
(* The coordinator.  App::run draws, then handles one event: every action  *)
(* below is one iteration of that loop for a terminal of height h.  The    *)
(* draw leaves the row capacity in visible_rows, which the handler reads.  *)

Coord(h) ==
    /\ running
    /\ visible_rows' = Rendered(h)
    /\ UNCHANGED <<config, auto_update_interval, disc_pc, ctr_pc, ctr_req, pool,
                   elapsed>>

\* the row set of the main table in the current state
Rows ==
    node_info(nodes, search_value, display_counters, counter_mode,
              sort_column, sort_ascending)

\* the node update_counters finds for the Details popup, as <<node>>, or <<>>
DetailsNode ==
    IF active_popup = "Details" /\ selected_node # <<>>
    THEN SelectSeq(nodes, LAMBDA n : n.guid = selected_node[1].guid)
    ELSE <<>>

\* update_counters as it would be without its pending_counter_update guard
update_counters_unguarded ==
    IF nodes = <<>>
    THEN /\ status' = Status("No nodes discovered yet, cannot update counters.", 0)
         /\ UNCHANGED <<pending_counter_update, ev_ctr>>
    ELSE /\ pending_counter_update' = TRUE
         /\ status' = IF DetailsNode # <<>>
                      THEN StatusDesc(DetailsNode[1].node_description)
                      ELSE Status("Updating counters...", 0)
         /\ ev_ctr' = Append(ev_ctr,
                             CounterRequest(lid_ports(active_popup, selected_node, nodes)))

\* update_counters: writes status, pending_counter_update and the counter inbox
update_counters ==
    IF pending_counter_update
    THEN /\ status' = Status("Counters update is already pending...", 0)
         /\ UNCHANGED <<pending_counter_update, ev_ctr>>
    ELSE IF nodes = <<>>
    THEN /\ status' = Status("No nodes discovered yet, cannot update counters.", 0)
         /\ UNCHANGED <<pending_counter_update, ev_ctr>>
    ELSE /\ pending_counter_update' = TRUE
         /\ status' = IF DetailsNode # <<>>
                      THEN StatusDesc(DetailsNode[1].node_description)
                      ELSE Status("Updating counters...", 0)
         /\ ev_ctr' = Append(ev_ctr,
                             CounterRequest(lid_ports(active_popup, selected_node, nodes)))

\* the 'u' arm of handle_key_event, in the main view and in the Details popup
\* the 'u' arms as they would be if they sent the request whatever the node
\* list holds
key_update_without_nodes ==
    /\ IF pending_counter_update
       THEN /\ status' = Status("Counters update is already pending...", 0)
            /\ UNCHANGED <<pending_counter_update, ev_ctr>>
       ELSE /\ pending_counter_update' = TRUE
            /\ status' = Status("Updating counters...", 0)
            /\ ev_ctr' = Append(ev_ctr,
                                CounterRequest(lid_ports(active_popup, selected_node, nodes)))
    /\ UNCHANGED <<running, nodes, selected_node, display_counters,
                     current_counters, previous_counters, baseline_counters,
                     counter_mode, tick, auto_update, auto_update_counter,
                     sort_column, sort_ascending, search_value, table_offset,
                     popup_table_offset, popup_selected, selected,
                     active_popup, receiver, ev_disc, disc_rx, ctr_rx>>

\* the 'u' arms of handle_key_event, of the main view and of the Details popup
key_update ==
    /\ IF nodes = <<>>
       THEN /\ status' = Status("No nodes discovered yet, cannot update counters.", 0)
            /\ UNCHANGED <<pending_counter_update, ev_ctr>>
       ELSE update_counters
    /\ UNCHANGED <<running, nodes, selected_node, display_counters,
                     current_counters, previous_counters, baseline_counters,
                     counter_mode, tick, auto_update, auto_update_counter,
                     sort_column, sort_ascending, search_value, table_offset,
                     popup_table_offset, popup_selected, selected,
                     active_popup, receiver, ev_disc, disc_rx, ctr_rx>>

\* a key the active view has no arm for
key_ignored ==
    /\ UNCHANGED <<running, nodes, selected_node, display_counters,
                     current_counters, previous_counters, baseline_counters,
                     pending_counter_update, counter_mode, status, tick,
                     auto_update, auto_update_counter, sort_column,
                     sort_ascending, search_value, table_offset,
                     popup_table_offset, popup_selected, selected,
                     active_popup, receiver, ev_disc, disc_rx, ev_ctr,
                     ctr_rx>>

\* SearchForm::on_key_press
search_push(c) ==
    /\ Len(search_value) < MaxFilterLen
    /\ search_value' = Append(search_value, c)
    /\ UNCHANGED <<running, nodes, selected_node, display_counters,
                     current_counters, previous_counters, baseline_counters,
                     pending_counter_update, counter_mode, status, tick,
                     auto_update, auto_update_counter, sort_column,
                     sort_ascending, table_offset, popup_table_offset,
                     popup_selected, selected, active_popup, receiver,
                     ev_disc, disc_rx, ev_ctr, ctr_rx>>

search_pop ==
    /\ search_value' = SubSeq(search_value, 1, Len(search_value) - 1)
    /\ UNCHANGED <<running, nodes, selected_node, display_counters,
                     current_counters, previous_counters, baseline_counters,
                     pending_counter_update, counter_mode, status, tick,
                     auto_update, auto_update_counter, sort_column,
                     sort_ascending, table_offset, popup_table_offset,
                     popup_selected, selected, active_popup, receiver,
                     ev_disc, disc_rx, ev_ctr, ctr_rx>>

\* the Esc/Enter arm of the Search popup as it would be if it sent a
\* discovery request for the rows it is about to show
search_close_rediscovers ==
    /\ active_popup' = "None"
    /\ IF nodes # <<>>
       THEN LET r == set_selected_node_guid(0, Rows)
            IN  /\ selected' = r.selected
                /\ selected_node' = r.selected_node
       ELSE UNCHANGED <<selected, selected_node>>
    /\ ev_disc' = Append(ev_disc, DiscoveryRequest)
    /\ UNCHANGED <<running, nodes, display_counters, current_counters,
                     previous_counters, baseline_counters,
                     pending_counter_update, counter_mode, status, tick,
                     auto_update, auto_update_counter, sort_column,
                     sort_ascending, search_value, table_offset,
                     popup_table_offset, popup_selected, receiver,
                     disc_rx, ev_ctr, ctr_rx>>

\* Esc or Enter in the Search popup
search_close ==
    /\ active_popup' = "None"
    /\ IF nodes # <<>>
       THEN LET r == set_selected_node_guid(0, Rows)
            IN  /\ selected' = r.selected
                /\ selected_node' = r.selected_node
       ELSE UNCHANGED <<selected, selected_node>>
    /\ UNCHANGED <<running, nodes, display_counters, current_counters,
                     previous_counters, baseline_counters,
                     pending_counter_update, counter_mode, status, tick,
                     auto_update, auto_update_counter, sort_column,
                     sort_ascending, search_value, table_offset,
                     popup_table_offset, popup_selected, receiver, ev_disc,
                     disc_rx, ev_ctr, ctr_rx>>

\* Esc or Enter in the Details popup
details_close ==
    /\ active_popup' = "None"
    /\ UNCHANGED <<running, nodes, selected_node, display_counters,
                     current_counters, previous_counters, baseline_counters,
                     pending_counter_update, counter_mode, status, tick,
                     auto_update, auto_update_counter, sort_column,
                     sort_ascending, search_value, table_offset,
                     popup_table_offset, popup_selected, selected, receiver,
                     ev_disc, disc_rx, ev_ctr, ctr_rx>>

\* Down in the Details popup
details_down ==
    /\ IF display_counters # EmptyStore
       THEN LET len == Cardinality(DOMAIN display_counters)
                sel == Min(popup_selected + 1, SatSub(len, 1))
                vis == Max(visible_rows', 1)
                max_offset == SatSub(len, vis)
            IN  /\ popup_selected' = sel
                /\ popup_table_offset' =
                     IF sel >= popup_table_offset + vis
                     THEN Min(popup_table_offset + 1, max_offset)
                     ELSE popup_table_offset
       ELSE UNCHANGED <<popup_selected, popup_table_offset>>
    /\ UNCHANGED <<running, nodes, selected_node, display_counters,
                     current_counters, previous_counters, baseline_counters,
                     pending_counter_update, counter_mode, status, tick,
                     auto_update, auto_update_counter, sort_column,
                     sort_ascending, search_value, table_offset, selected,
                     active_popup, receiver, ev_disc, disc_rx, ev_ctr,
                     ctr_rx>>

\* Up in the Details popup
details_up ==
    /\ IF display_counters # EmptyStore
       THEN LET sel == IF popup_selected > 0 THEN popup_selected - 1 ELSE popup_selected
            IN  /\ popup_selected' = sel
                /\ popup_table_offset' =
                     IF sel < popup_table_offset
                     THEN SatSub(popup_table_offset, 1)
                     ELSE popup_table_offset
       ELSE UNCHANGED <<popup_selected, popup_table_offset>>
    /\ UNCHANGED <<running, nodes, selected_node, display_counters,
                     current_counters, previous_counters, baseline_counters,
                     pending_counter_update, counter_mode, status, tick,
                     auto_update, auto_update_counter, sort_column,
                     sort_ascending, search_value, table_offset, selected,
                     active_popup, receiver, ev_disc, disc_rx, ev_ctr,
                     ctr_rx>>

\* the quit keys of the main view: events.send(AppEvent::Quit)
main_quit ==
    /\ Len(receiver) < MaxQuit
    /\ ev_disc' = Append(ev_disc, Exit)
    /\ ev_ctr' = Append(ev_ctr, Exit)
    /\ receiver' = Append(receiver, "Quit")
    /\ UNCHANGED <<running, nodes, selected_node, display_counters,
                     current_counters, previous_counters, baseline_counters,
                     pending_counter_update, counter_mode, status, tick,
                     auto_update, auto_update_counter, sort_column,
                     sort_ascending, search_value, table_offset,
                     popup_table_offset, popup_selected, selected,
                     active_popup, disc_rx, ctr_rx>>

\* discovery requests not yet answered and replies not yet consumed
DiscOutstanding ==
    Len(SelectSeq(ev_disc, LAMBDA m : m.type = "Request"))
      + (IF disc_pc = "get_nodes" THEN 1 ELSE 0) + Len(disc_rx)

\* discover_fabric
discover_fabric ==
    /\ DiscOutstanding < MaxDiscQueue
    /\ status' = Status("Discovering...", 0)
    /\ ev_disc' = Append(ev_disc, DiscoveryRequest)
    /\ UNCHANGED <<running, nodes, selected_node, display_counters,
                     current_counters, previous_counters, baseline_counters,
                     pending_counter_update, counter_mode, tick, auto_update,
                     auto_update_counter, sort_column, sort_ascending,
                     search_value, table_offset, popup_table_offset,
                     popup_selected, selected, active_popup, receiver,
                     disc_rx, ev_ctr, ctr_rx>>

main_toggle_auto ==
    /\ auto_update' = ~auto_update
    /\ UNCHANGED <<running, nodes, selected_node, display_counters,
                     current_counters, previous_counters, baseline_counters,
                     pending_counter_update, counter_mode, status, tick,
                     auto_update_counter, sort_column, sort_ascending,
                     search_value, table_offset, popup_table_offset,
                     popup_selected, selected, active_popup, receiver,
                     ev_disc, disc_rx, ev_ctr, ctr_rx>>

\* the mode keys as they would be if 'B' took its snapshot only on entering
\* Baseline mode
main_mode_snapshot_on_entry(mode) ==
    /\ counter_mode' = mode
    /\ baseline_counters' = IF mode = "Baseline" /\ counter_mode # "Baseline"
                            THEN current_counters
                            ELSE baseline_counters
    /\ UNCHANGED <<running, nodes, selected_node, display_counters,
                     current_counters, previous_counters,
                     pending_counter_update, status, tick, auto_update,
                     auto_update_counter, sort_column, sort_ascending,
                     search_value, table_offset, popup_table_offset,
                     popup_selected, selected, active_popup, receiver,
                     ev_disc, disc_rx, ev_ctr, ctr_rx>>

\* the mode keys as they would be if they recomputed display from the stores
\* under the new mode
main_mode_refreshes_display(mode) ==
    /\ counter_mode' = mode
    /\ baseline_counters' = IF mode = "Baseline" THEN current_counters
                            ELSE baseline_counters
    /\ display_counters' =
         DisplayFor(mode, current_counters, previous_counters,
                    baseline_counters')
    /\ UNCHANGED <<running, nodes, selected_node,
                     current_counters, previous_counters,
                     pending_counter_update, status, tick, auto_update,
                     auto_update_counter, sort_column, sort_ascending,
                     search_value, table_offset, popup_table_offset,
                     popup_selected, selected, active_popup, receiver,
                     ev_disc, disc_rx, ev_ctr, ctr_rx>>

main_mode(mode) ==
    /\ counter_mode' = mode
    /\ baseline_counters' = IF mode = "Baseline" THEN current_counters
                            ELSE baseline_counters
    /\ UNCHANGED <<running, nodes, selected_node, display_counters,
                     current_counters, previous_counters,
                     pending_counter_update, status, tick, auto_update,
                     auto_update_counter, sort_column, sort_ascending,
                     search_value, table_offset, popup_table_offset,
                     popup_selected, selected, active_popup, receiver,
                     ev_disc, disc_rx, ev_ctr, ctr_rx>>

increment_sort_column ==
    /\ sort_column' = (sort_column + 1) % MAX_SORT_COLUMNS
    /\ UNCHANGED <<running, nodes, selected_node, display_counters,
                     current_counters, previous_counters, baseline_counters,
                     pending_counter_update, counter_mode, status, tick,
                     auto_update, auto_update_counter, sort_ascending,
                     search_value, table_offset, popup_table_offset,
                     popup_selected, selected, active_popup, receiver,
                     ev_disc, disc_rx, ev_ctr, ctr_rx>>

main_toggle_sort ==
    /\ sort_ascending' = ~sort_ascending
    /\ UNCHANGED <<running, nodes, selected_node, display_counters,
                     current_counters, previous_counters, baseline_counters,
                     pending_counter_update, counter_mode, status, tick,
                     auto_update, auto_update_counter, sort_column,
                     search_value, table_offset, popup_table_offset,
                     popup_selected, selected, active_popup, receiver,
                     ev_disc, disc_rx, ev_ctr, ctr_rx>>

\* the navigation arms: sel is the row the key moves to
main_navigate(sel) ==
    /\ IF nodes # <<>>
       THEN LET r == set_selected_node_guid(sel, Rows)
            IN  /\ selected' = r.selected
                /\ selected_node' = r.selected_node
                /\ table_offset' =
                     ensure_selected_visible(r.selected, table_offset, visible_rows',
                                             filtered_len(nodes, search_value))
       ELSE UNCHANGED <<selected, selected_node, table_offset>>
    /\ UNCHANGED <<running, nodes, display_counters, current_counters,
                     previous_counters, baseline_counters,
                     pending_counter_update, counter_mode, status, tick,
                     auto_update, auto_update_counter, sort_column,
                     sort_ascending, search_value, popup_table_offset,
                     popup_selected, active_popup, receiver, ev_disc,
                     disc_rx, ev_ctr, ctr_rx>>

\* Enter in the main view as it would be if it cleared the baseline too
main_enter_clears_baseline ==
    LET r == set_selected_node_guid(selected, Rows)
    IN  /\ selected' = r.selected
        /\ selected_node' = r.selected_node
        /\ IF r.selected_node # <<>>
           THEN /\ display_counters' = EmptyStore
                /\ current_counters' = EmptyStore
                /\ previous_counters' = EmptyStore
                /\ popup_table_offset' = 0
                /\ popup_selected' = 0
                /\ active_popup' = "Details"
           ELSE /\ active_popup' = "None"
                /\ UNCHANGED <<display_counters, current_counters, previous_counters,
                               popup_table_offset, popup_selected>>
        /\ baseline_counters' = IF r.selected_node # <<>> THEN EmptyStore
                                ELSE baseline_counters
        /\ UNCHANGED <<running, nodes,
                         pending_counter_update, counter_mode, status, tick,
                         auto_update, auto_update_counter, sort_column,
                         sort_ascending, search_value, table_offset,
                         receiver, ev_disc, disc_rx, ev_ctr, ctr_rx>>

\* Enter in the main view
main_enter ==
    LET r == set_selected_node_guid(selected, Rows)
    IN  /\ selected' = r.selected
        /\ selected_node' = r.selected_node
        /\ IF r.selected_node # <<>>
           THEN /\ display_counters' = EmptyStore
                /\ current_counters' = EmptyStore
                /\ previous_counters' = EmptyStore
                /\ popup_table_offset' = 0
                /\ popup_selected' = 0
                /\ active_popup' = "Details"
           ELSE /\ active_popup' = "None"
                /\ UNCHANGED <<display_counters, current_counters, previous_counters,
                               popup_table_offset, popup_selected>>
        /\ UNCHANGED <<running, nodes, baseline_counters,
                         pending_counter_update, counter_mode, status, tick,
                         auto_update, auto_update_counter, sort_column,
                         sort_ascending, search_value, table_offset,
                         receiver, ev_disc, disc_rx, ev_ctr, ctr_rx>>

main_search ==
    /\ active_popup' = "Search"
    /\ UNCHANGED <<running, nodes, selected_node, display_counters,
                     current_counters, previous_counters, baseline_counters,
                     pending_counter_update, counter_mode, status, tick,
                     auto_update, auto_update_counter, sort_column,
                     sort_ascending, search_value, table_offset,
                     popup_table_offset, popup_selected, selected, receiver,
                     ev_disc, disc_rx, ev_ctr, ctr_rx>>

\* on_tick
\* on_tick as it would be if an update that is sent left the counter alone
on_tick_keeps_counter ==
    LET t == (tick + 1) % TICK_RESET_INTERVAL
        counter == IF t = 0 THEN auto_update_counter + 1 ELSE auto_update_counter
    IN  /\ counter <= MaxAutoCounter
        /\ tick' = t
        /\ auto_update_counter' = counter
        /\ IF auto_update /\ ~pending_counter_update /\ counter >= auto_update_interval
              /\ nodes # <<>>
           THEN update_counters
           ELSE UNCHANGED <<status, pending_counter_update, ev_ctr>>
        /\ UNCHANGED <<running, nodes, selected_node, display_counters,
                         current_counters, previous_counters,
                         baseline_counters, counter_mode, auto_update,
                         sort_column, sort_ascending, search_value,
                         table_offset, popup_table_offset, popup_selected,
                         selected, active_popup, receiver, ev_disc, disc_rx,
                         ctr_rx>>

on_tick ==
    LET t == (tick + 1) % TICK_RESET_INTERVAL
        counter == IF t = 0 THEN auto_update_counter + 1 ELSE auto_update_counter
    IN  /\ counter <= MaxAutoCounter
        /\ tick' = t
        /\ IF auto_update /\ ~pending_counter_update /\ counter >= auto_update_interval
           THEN /\ IF nodes # <<>>
                   THEN update_counters
                   ELSE UNCHANGED <<status, pending_counter_update, ev_ctr>>
                /\ auto_update_counter' = 0
           ELSE /\ auto_update_counter' = counter
                /\ UNCHANGED <<status, pending_counter_update, ev_ctr>>
        /\ UNCHANGED <<running, nodes, selected_node, display_counters,
                         current_counters, previous_counters,
                         baseline_counters, counter_mode, auto_update,
                         sort_column, sort_ascending, search_value,
                         table_offset, popup_table_offset, popup_selected,
                         selected, active_popup, receiver, ev_disc, disc_rx,
                         ctr_rx>>

\* handle_counters_update as it would be if it left pending_counter_update set
handle_counters_update_keeps_pending(counters) ==
    /\ previous_counters' = current_counters
    /\ current_counters' = counters
    /\ display_counters' =
         DisplayFor(counter_mode, counters, current_counters, baseline_counters)
    /\ status' = Status("Updated counters", Cardinality(DOMAIN counters))
    /\ UNCHANGED pending_counter_update

\* handle_counters_update
\* handle_counters_update as it would be if it kept the older sample as
\* previous_counters once one was there
handle_counters_update_keeps_previous(counters) ==
    /\ previous_counters' = IF previous_counters = EmptyStore THEN current_counters
                            ELSE previous_counters
    /\ current_counters' = counters
    /\ display_counters' =
         DisplayFor(counter_mode, counters, current_counters, baseline_counters)
    /\ status' = Status("Updated counters", Cardinality(DOMAIN counters))
    /\ pending_counter_update' = FALSE

handle_counters_update(counters) ==
    /\ previous_counters' = current_counters
    /\ current_counters' = counters
    /\ display_counters' =
         DisplayFor(counter_mode, counters, current_counters, baseline_counters)
    /\ status' = Status("Updated counters", Cardinality(DOMAIN counters))
    /\ pending_counter_update' = FALSE

\* the Event::Counters arm of handle_events
handle_counter_event(ev) ==
    /\ CASE ev.type = "Response" -> handle_counters_update(ev.counters)
         [] ev.type = "Error" ->
              /\ status' = Status("Counter update failed", 0)
              /\ pending_counter_update' = FALSE
              /\ UNCHANGED <<previous_counters, current_counters, display_counters>>
         [] ev.type = "Exit" ->
              UNCHANGED <<status, pending_counter_update, previous_counters,
                          current_counters, display_counters>>
         [] OTHER ->
              /\ status' = Status("Unknown counter event", 0)
              /\ UNCHANGED <<pending_counter_update, previous_counters,
                             current_counters, display_counters>>
    /\ UNCHANGED <<running, nodes, selected_node, baseline_counters,
                     counter_mode, tick, auto_update, auto_update_counter,
                     sort_column, sort_ascending, search_value, table_offset,
                     popup_table_offset, popup_selected, selected,
                     active_popup, receiver, ev_disc, disc_rx, ev_ctr>>

\* the Event::Discover arm of handle_events
handle_discovery_event(ev) ==
    /\ CASE ev.type = "Response" ->
              /\ status' = Status("Discovery complete: nodes found", Len(ev.nodes))
              /\ nodes' = ev.nodes
              /\ IF ev.nodes # <<>>
                 THEN LET r == set_selected_node_guid(0,
                                  node_info(ev.nodes, search_value, display_counters,
                                            counter_mode, sort_column, sort_ascending))
                      IN  /\ selected' = r.selected
                          /\ selected_node' = r.selected_node
                 ELSE UNCHANGED <<selected, selected_node>>
         [] ev.type = "Error" ->
              /\ status' = Status("Discovery failed", 0)
              /\ UNCHANGED <<nodes, selected, selected_node>>
         [] ev.type = "Exit" ->
              UNCHANGED <<status, nodes, selected, selected_node>>
         [] OTHER ->
              /\ status' = Status("Unknown discovery event", 0)
              /\ UNCHANGED <<nodes, selected, selected_node>>
    /\ UNCHANGED <<running, display_counters, current_counters,
                     previous_counters, baseline_counters,
                     pending_counter_update, counter_mode, tick, auto_update,
                     auto_update_counter, sort_column, sort_ascending,
                     search_value, table_offset, popup_table_offset,
                     popup_selected, active_popup, receiver, ev_disc, ev_ctr,
                     ctr_rx>>

----------------------------------------------------------------------------
(* Events of the coordinator *)

Tick(h) == Coord(h) /\ on_tick

\* a printable character with no arm in the main view or the Details popup
KeyChar(c, h) ==
    /\ Coord(h)
    /\ IF active_popup = "Search" THEN search_push(c) ELSE key_ignored

KeyBackspace(h) ==
    /\ Coord(h)
    /\ IF active_popup = "Search" THEN search_pop ELSE key_ignored

KeyEsc(h) ==
    /\ Coord(h)
    /\ CASE active_popup = "Search" -> search_close
         [] active_popup = "Details" -> details_close
         [] OTHER -> main_quit

KeyEnter(h) ==
    /\ Coord(h)
    /\ CASE active_popup = "Search" -> search_close
         [] active_popup = "Details" -> details_close
         [] OTHER -> main_enter

\* handle_key_event as it would be if 'q' quit from the Search popup too
Key_q_quits_in_search(h) ==
    /\ Coord(h)
    /\ IF active_popup = "Details" THEN key_ignored ELSE main_quit

Key_q(h) ==
    /\ Coord(h)
    /\ CASE active_popup = "Search" -> search_push("q")
         [] active_popup = "Details" -> key_ignored
         [] OTHER -> main_quit

\* Ctrl-C: Char('c') with the CONTROL modifier, which only the main view
\* looks at; SearchForm::on_key_press matches on the code alone
KeyCtrlC(h) ==
    /\ Coord(h)
    /\ CASE active_popup = "Search" -> search_push("c")
         [] active_popup = "Details" -> key_ignored
         [] OTHER -> main_quit

Key_d(h) ==
    /\ Coord(h)
    /\ CASE active_popup = "Search" -> search_push("d")
         [] active_popup = "Details" -> key_ignored
         [] OTHER -> discover_fabric

Key_u(h) ==
    /\ Coord(h)
    /\ CASE active_popup = "Search" -> search_push("u")
         [] OTHER -> key_update

Key_U(h) ==
    /\ Coord(h)
    /\ CASE active_popup = "Search" -> search_push("U")
         [] active_popup = "Details" -> key_ignored
         [] OTHER -> main_toggle_auto

Key_W(h) ==
    /\ Coord(h)
    /\ CASE active_popup = "Search" -> search_push("W")
         [] active_popup = "Details" -> key_ignored
         [] OTHER -> main_mode("Whole")

Key_D(h) ==
    /\ Coord(h)
    /\ CASE active_popup = "Search" -> search_push("D")
         [] active_popup = "Details" -> key_ignored
         [] OTHER -> main_mode("Delta")

Key_B(h) ==
    /\ Coord(h)
    /\ CASE active_popup = "Search" -> search_push("B")
         [] active_popup = "Details" -> key_ignored
         [] OTHER -> main_mode("Baseline")

Key_s(h) ==
    /\ Coord(h)
    /\ CASE active_popup = "Search" -> search_push("s")
         [] active_popup = "Details" -> key_ignored
         [] OTHER -> increment_sort_column

Key_S(h) ==
    /\ Coord(h)
    /\ CASE active_popup = "Search" -> search_push("S")
         [] active_popup = "Details" -> key_ignored
         [] OTHER -> main_toggle_sort

KeySlash(h) ==
    /\ Coord(h)
    /\ CASE active_popup = "Search" -> search_push("/")
         [] active_popup = "Details" -> key_ignored
         [] OTHER -> main_search

KeyDown(h) ==
    /\ Coord(h)
    /\ CASE active_popup = "Search" -> key_ignored
         [] active_popup = "Details" -> details_down
         [] OTHER ->
              main_navigate(Min(selected + 1,
                                SatSub(filtered_len(nodes, search_value), 1)))

KeyUp(h) ==
    /\ Coord(h)
    /\ CASE active_popup = "Search" -> key_ignored
         [] active_popup = "Details" -> details_up
         [] OTHER -> main_navigate(IF selected > 0 THEN selected - 1 ELSE selected)

KeyPageDown(h) ==
    /\ Coord(h)
    /\ IF active_popup # "None" THEN key_ignored
       ELSE main_navigate(Min(selected + Max(visible_rows', 1),
                              SatSub(filtered_len(nodes, search_value), 1)))

KeyPageUp(h) ==
    /\ Coord(h)
    /\ IF active_popup # "None" THEN key_ignored
       ELSE main_navigate(SatSub(selected, Max(visible_rows', 1)))

KeyHome(h) ==
    /\ Coord(h)
    /\ IF active_popup # "None" THEN key_ignored ELSE main_navigate(0)

KeyEnd(h) ==
    /\ Coord(h)
    /\ IF active_popup # "None" THEN key_ignored
       ELSE main_navigate(SatSub(filtered_len(nodes, search_value), 1))

\* Event::App(AppEvent::Quit): quit, the end of run, and the drop of the
\* EventHandler that run owned
HandleQuit(h) ==
    /\ Coord(h)
    /\ receiver # <<>>
    /\ receiver' = Tail(receiver)
    /\ running' = FALSE
    /\ ev_disc' = Append(ev_disc, Exit)
    /\ ev_ctr' = Append(ev_ctr, Exit)
    /\ UNCHANGED <<nodes, selected_node, display_counters, current_counters,
                     previous_counters, baseline_counters,
                     pending_counter_update, counter_mode, status, tick,
                     auto_update, auto_update_counter, sort_column,
                     sort_ascending, search_value, table_offset,
                     popup_table_offset, popup_selected, selected,
                     active_popup, disc_rx, ctr_rx>>

\* EventHandler::next returns a reply only once the general channel, which
\* it polls first, has been found empty
HandleDiscovery(h) ==
    /\ Coord(h)
    /\ receiver = <<>>
    /\ disc_rx # <<>>
    /\ disc_rx' = Tail(disc_rx)
    /\ handle_discovery_event(Head(disc_rx))

\* next as it would be if it polled the counter replies before the general
\* channel
HandleCounters_polls_replies_first(h) ==
    /\ Coord(h)
    /\ ctr_rx # <<>>
    /\ ctr_rx' = Tail(ctr_rx)
    /\ handle_counter_event(Head(ctr_rx))

HandleCounters(h) ==
    /\ Coord(h)
    /\ receiver = <<>>
    /\ ctr_rx # <<>>
    /\ ctr_rx' = Tail(ctr_rx)
    /\ handle_counter_event(Head(ctr_rx))

----------------------------------------------------------------------------
(* The services.  Each blocks in recv, and then in the transport while the *)
(* coordinator runs on.                                                    *)

svcFrame == UNCHANGED <<appVars, receiver, elapsed>>

\* IbmadDiscoveryService::run: recv
DiscRecv ==
    /\ disc_pc = "recv"
    /\ ev_disc # <<>>
    /\ ev_disc' = Tail(ev_disc)
    /\ disc_pc' = CASE Head(ev_disc).type = "Exit" -> "exited"
                    [] Head(ev_disc).type = "Request" -> "get_nodes"
                    [] OTHER -> "recv"
    /\ UNCHANGED <<disc_rx, ev_ctr, ctr_rx, ctr_pc, ctr_req, pool>>
    /\ svcFrame

\* run as it would be if it sent nothing when the transport cannot be opened
DiscReply_unless_failed(fabrics) ==
    /\ disc_pc = "get_nodes"
    /\ \E opened \in BOOLEAN, fabric_nodes \in fabrics :
          disc_rx' = IF opened
                     THEN Append(disc_rx,
                                 DiscoveryResponse(get_nodes(opened, fabric_nodes,
                                                             config.include_hcas)))
                     ELSE disc_rx
    /\ disc_pc' = "recv"
    /\ UNCHANGED <<ev_disc, ev_ctr, ctr_rx, ctr_pc, ctr_req, pool>>
    /\ svcFrame

\* IbmadDiscoveryService::run: get_nodes returns and the Response is sent
DiscReply(fabrics) ==
    /\ disc_pc = "get_nodes"
    /\ \E opened \in BOOLEAN, fabric_nodes \in fabrics :
          disc_rx' = Append(disc_rx,
                            DiscoveryResponse(get_nodes(opened, fabric_nodes,
                                                        config.include_hcas)))
    /\ disc_pc' = "recv"
    /\ UNCHANGED <<ev_disc, ev_ctr, ctr_rx, ctr_pc, ctr_req, pool>>
    /\ svcFrame

\* run as it would be if it kept serving after the Exit sentinel
CtrRecv_serves_after_exit ==
    /\ ctr_pc = "recv"
    /\ ev_ctr # <<>>
    /\ ev_ctr' = Tail(ev_ctr)
    /\ ctr_pc' = IF Head(ev_ctr).type = "Request" THEN "get_counters" ELSE "recv"
    /\ ctr_req' = IF Head(ev_ctr).type = "Request" THEN Head(ev_ctr).lid_ports
                  ELSE <<>>
    /\ UNCHANGED <<ev_disc, disc_rx, ctr_rx, disc_pc, pool>>
    /\ svcFrame

\* IbmadCountersService::run: recv
CtrRecv ==
    /\ ctr_pc = "recv"
    /\ ev_ctr # <<>>
    /\ ev_ctr' = Tail(ev_ctr)
    /\ ctr_pc' = CASE Head(ev_ctr).type = "Exit" -> "exited"
                   [] Head(ev_ctr).type = "Request" -> "get_counters"
                   [] OTHER -> "recv"
    /\ ctr_req' = IF Head(ev_ctr).type = "Request" THEN Head(ev_ctr).lid_ports
                  ELSE <<>>
    /\ UNCHANGED <<ev_disc, disc_rx, ctr_rx, disc_pc, pool>>
    /\ svcFrame

\* run as it would be if it answered only when get_counters returned counters
counters_reply_unless_empty(counters) ==
    IF counters = EmptyStore THEN <<>> ELSE <<CounterResponse(counters)>>

\* what run sends once get_counters has returned
counters_reply(counters) == <<CounterResponse(counters)>>

\* IbmadCountersService::run: get_counters returns and the Response is sent
CtrReply(records) ==
    /\ ctr_pc = "get_counters"
    /\ LET n == Len(ctr_req)
           cs == ChunkSize(n, config.threads)
       IN  \E opened \in BOOLEAN,
              open_ok \in SUBSET (1..NumChunks(n, cs)),
              query_ok \in SUBSET (1..n),
              recs \in [1..n -> records] :
                ctr_rx' = ctr_rx \o counters_reply(
                             get_counters(ctr_req, config.threads, opened,
                                          open_ok, query_ok, recs))
    /\ ctr_pc' = "recv"
    /\ ctr_req' = <<>>
    /\ UNCHANGED <<ev_disc, disc_rx, ev_ctr, disc_pc, pool>>
    /\ svcFrame

----------------------------------------------------------------------------
(* Inputs: raw topologies the transport may report, the records a query    *)
(* may return, terminal heights, configurations                            *)

\* a discovery::Port: its number and what its remote_port leads to.  The
\* description is an Option, <<>> for None and <<d>> for Some(d).
RawPort(number, remote) == [number |-> number, remote |-> remote]

Chain(remote, peer, peer_read, parent, parent_read, description) ==
    [remote_port |-> remote, peer_alive |-> peer, peer_readable |-> peer_read,
     parent_alive |-> parent, parent_readable |-> parent_read,
     description |-> description]

\* a port linked to a port of a node with the given description
Linked(description) == Chain(TRUE, TRUE, TRUE, TRUE, TRUE, <<description>>)

\* a port with remote_port = None
Unlinked == Chain(FALSE, FALSE, FALSE, FALSE, FALSE, <<>>)

RawNode(type, guid, lid, description, ports) ==
    [node_type |-> type, node_guid |-> guid, lid |-> lid,
     description |-> description, ports |-> ports]

SwitchA ==
    RawNode("Switch", 1, 1, <<"a">>, <<RawPort(1, Linked(<<"b">>)), RawPort(2, Unlinked)>>)

SwitchB == RawNode("Switch", 2, 2, <<"b">>, <<RawPort(1, Linked(<<"a">>))>>)

SwitchC == RawNode("Switch", 3, 3, <<"a", "b">>, <<RawPort(1, Unlinked)>>)

HostD == RawNode("CA", 4, 4, <<"A">>, <<RawPort(1, Linked(<<"a">>))>>)

DefaultConfig == [update_interval |-> UPDATE_INTERVAL_DEFAULT,
                  include_hcas |-> FALSE, threads |-> 16]

\* a record with the counters in keys, each at most max
Records(keys, max) == [keys -> 0..max]

----------------------------------------------------------------------------
(* TickSpec: the request/reply protocol of the counters with the tick      *)
(* producer running: manual and automatic updates in the main view and in  *)
(* the Details popup, replies, and quit.                                   *)

TickFabrics == {<<SwitchB>>}

TickRecords == Records({"xmt_bytes"}, 0)

TickInit == InitWith({[DefaultConfig EXCEPT !.update_interval = 1]})

TickNext ==
    \/ Tick(TermHeight)
    \/ Key_U(TermHeight)
    \/ Key_u(TermHeight)
    \/ KeyEnter(TermHeight)
    \/ KeyEsc(TermHeight)
    \/ HandleQuit(TermHeight)
    \/ HandleDiscovery(TermHeight)
    \/ HandleCounters(TermHeight)
    \/ DiscRecv
    \/ DiscReply(TickFabrics)
    \/ CtrRecv
    \/ CtrReply(TickRecords)

TickSpec == TickInit /\ [][TickNext]_vars

----------------------------------------------------------------------------
(* Properties of the counter request/reply protocol                        *)

NumRequests(q) == Len(SelectSeq(q, LAMBDA m : m.type = "Request"))

\* counter requests queued, in service, or answered and not yet consumed
CtrOutstanding ==
    NumRequests(ev_ctr) + (IF ctr_pc = "get_counters" THEN 1 ELSE 0) + Len(ctr_rx)

\* this step of the coordinator appends a CounterRequest to the counter inbox
SendsCounterRequest ==
    /\ Len(ev_ctr') = Len(ev_ctr) + 1
    /\ ev_ctr'[Len(ev_ctr')].type = "Request"

\* this step of the coordinator takes a Response or an Error off ctr_rx
ConsumesCounterReply ==
    /\ ctr_rx # <<>>
    /\ ctr_rx' = Tail(ctr_rx)
    /\ Head(ctr_rx).type \in {"Response", "Error"}

\* C1: while pending_counter_update is true no step (a 'u' key in the main
\* view or in the Details popup, an auto-update tick, or any other) sends a
\* CounterRequest, and in every reachable state at most one counter request
\* is outstanding: queued, in service, or with its reply unconsumed.
C1_NoRequestWhilePending ==
    /\ [](CtrOutstanding <= 1)
    /\ [][pending_counter_update => ~SendsCounterRequest]_vars

\* a 'u' key was refused while the flag is set, in the Details popup, and the
\* auto-update is due and held back by the flag
C1_Witness ==
    /\ pending_counter_update
    /\ status.msg = "Counters update is already pending..."
    /\ active_popup = "Details"
    /\ auto_update
    /\ auto_update_counter >= auto_update_interval
    /\ CtrOutstanding = 1

\* C2: pending_counter_update turns true exactly in the steps that send a
\* CounterRequest and turns false exactly in the steps that consume a counter
\* reply (Response or Error); every other step (tick, key, discovery reply,
\* opening or closing a popup, service steps) leaves the flag as it is.
C2_PendingFlag ==
    [][/\ SendsCounterRequest <=> (~pending_counter_update /\ pending_counter_update')
       /\ ConsumesCounterReply <=> (pending_counter_update /\ ~pending_counter_update')]_vars

\* the flag was set by a request sent from the Details popup and cleared again
\* by the reply, after ticks, keys and a discovery reply
C2_Witness ==
    /\ ~pending_counter_update
    /\ status.msg = "Updated counters"
    /\ active_popup = "Details"
    /\ auto_update
    /\ auto_update_counter > 0

----------------------------------------------------------------------------
(* FairSpec: one switch with two ports; the user updates from the main     *)
(* view and from the Details popup and quits.  The service threads and the *)
(* coordinator's loop keep running: a step that stays possible is taken.   *)

FairFabrics == {<<SwitchA>>}

FairRecords == Records({"xmt_bytes"}, 0)

FairInit == InitWith({DefaultConfig})

FairNext ==
    \/ Key_u(TermHeight)
    \/ Key_q(TermHeight)
    \/ KeyEnter(TermHeight)
    \/ HandleQuit(TermHeight)
    \/ HandleDiscovery(TermHeight)
    \/ HandleCounters(TermHeight)
    \/ DiscRecv
    \/ DiscReply(FairFabrics)
    \/ CtrRecv
    \/ CtrReply(FairRecords)

FairSpec ==
    /\ FairInit
    /\ [][FairNext]_vars
    /\ WF_vars(DiscRecv)
    /\ WF_vars(DiscReply(FairFabrics))
    /\ WF_vars(CtrRecv)
    /\ WF_vars(CtrReply(FairRecords))
    /\ WF_vars(HandleQuit(TermHeight))
    /\ WF_vars(HandleDiscovery(TermHeight))
    /\ WF_vars(HandleCounters(TermHeight))

\* the counter service leaves get_counters only by sending one Response, and
\* nothing else ever adds to ctr_rx
OneReplyPerRequest ==
    /\ [][(ctr_pc = "get_counters" /\ ctr_pc' # "get_counters")
            => /\ Len(ctr_rx') = Len(ctr_rx) + 1
               /\ ctr_rx'[Len(ctr_rx')].type = "Response"
               /\ SubSeq(ctr_rx', 1, Len(ctr_rx)) = ctr_rx]_vars
    /\ [][Len(ctr_rx') > Len(ctr_rx)
            => /\ ctr_pc = "get_counters"
               /\ ctr_pc' = "recv"
               /\ Len(ctr_rx') = Len(ctr_rx) + 1]_vars
    /\ [][(ctr_pc = "recv" /\ ev_ctr # <<>> /\ ev_ctr' = Tail(ev_ctr))
            => (ctr_pc' = "get_counters" <=> Head(ev_ctr).type = "Request")]_vars

\* a Request at the head of the inbox of a counter service that has not seen Exit
RequestAhead ==
    /\ ctr_pc = "recv"
    /\ ev_ctr # <<>>
    /\ Head(ev_ctr).type = "Request"

\* every request the service receives before Exit is answered
RequestAnswered ==
    /\ RequestAhead ~> (ctr_pc = "get_counters")
    /\ (ctr_pc = "get_counters") ~> (ctr_pc = "recv" /\ ctr_rx # <<>>)

\* C3, as the code has it: every CounterRequest the counter service receives
\* before Exit produces exactly one Response, also when the host adapter or
\* the thread pool cannot be opened or every target fails; and a
\* pending_counter_update that is set is eventually cleared unless a Quit is
\* queued or handled first, in which case the reply is never consumed.
C3_OneReplyClearedUnlessQuit ==
    /\ OneReplyPerRequest
    /\ RequestAnswered
    /\ pending_counter_update
         ~> (~pending_counter_update \/ receiver # <<>> \/ ~running)

\* the request for the two ports of the selected switch was answered with one
\* Response, the empty store; the coordinator handled Quit first, the reply
\* stays in ctr_rx and the flag stays set
C3_Witness ==
    /\ active_popup = "Details"
    /\ pending_counter_update
    /\ ~running
    /\ ctr_pc = "exited"
    /\ ctr_rx = <<CounterResponse(EmptyStore)>>

\* C3 as claimed: exactly one Response per request received before Exit, and
\* consequently a pending_counter_update that was set is eventually cleared
C3_AsClaimed ==
    /\ OneReplyPerRequest
    /\ RequestAnswered
    /\ pending_counter_update ~> ~pending_counter_update

----------------------------------------------------------------------------
(* DiscSpec: the user presses 'd' repeatedly, so that requests queue up in *)
(* the discovery inbox, and quits; the topology changes between replies.   *)

DiscFabrics == {<<SwitchA, SwitchB>>, <<SwitchB>>}

DiscInit == InitWith({DefaultConfig})

DiscNext ==
    \/ Key_d(TermHeight)
    \/ Key_q(TermHeight)
    \/ HandleQuit(TermHeight)
    \/ HandleDiscovery(TermHeight)
    \/ DiscRecv
    \/ DiscReply(DiscFabrics)
    \/ CtrRecv

DiscSpec ==
    /\ DiscInit
    /\ [][DiscNext]_vars
    /\ WF_vars(DiscRecv)
    /\ WF_vars(DiscReply(DiscFabrics))
    /\ WF_vars(CtrRecv)
    /\ WF_vars(HandleQuit(TermHeight))
    /\ WF_vars(HandleDiscovery(TermHeight))

\* the discovery service takes messages off the head of its inbox, turns to
\* get_nodes exactly for a Request, leaves get_nodes only by appending one
\* Response (never an Error) to the tail of disc_rx, and nothing else adds to
\* disc_rx
DiscoveryInOrder ==
    /\ [][(disc_pc = "recv" /\ ev_disc # <<>> /\ Len(ev_disc') < Len(ev_disc))
            => /\ ev_disc' = Tail(ev_disc)
               /\ (disc_pc' = "get_nodes" <=> Head(ev_disc).type = "Request")]_vars
    /\ [][(disc_pc = "get_nodes" /\ disc_pc' # "get_nodes")
            => /\ Len(disc_rx') = Len(disc_rx) + 1
               /\ disc_rx'[Len(disc_rx')].type = "Response"
               /\ SubSeq(disc_rx', 1, Len(disc_rx)) = disc_rx]_vars
    /\ [][Len(disc_rx') > Len(disc_rx)
            => /\ disc_pc = "get_nodes"
               /\ disc_pc' = "recv"
               /\ Len(disc_rx') = Len(disc_rx) + 1]_vars
    /\ [][disc_pc = "get_nodes" => Len(ev_disc') >= Len(ev_disc)]_vars

\* a Request at the head of the inbox of a discovery service that has not
\* seen Exit
DiscRequestAhead ==
    /\ disc_pc = "recv"
    /\ ev_disc # <<>>
    /\ Head(ev_disc).type = "Request"

\* C4: the discovery service answers every DiscoveryRequest it receives before
\* Exit with exactly one reply, in arrival order, and drops none, also when
\* several requests are queued because 'd' was pressed repeatedly.
C4_DiscoveryOneReplyInOrder ==
    /\ DiscoveryInOrder
    /\ DiscRequestAhead ~> (disc_pc = "get_nodes")
    /\ (disc_pc = "get_nodes") ~> (disc_pc = "recv" /\ disc_rx # <<>>)

\* 'd' was pressed while a request was queued, and both requests have been
\* answered, the second reply behind the first
C4_Witness ==
    /\ Len(disc_rx) = 2
    /\ disc_rx[1].nodes # disc_rx[2].nodes
    /\ disc_pc = "recv"
    /\ ev_disc = <<>>
    /\ status.msg = "Discovering..."

----------------------------------------------------------------------------
(* DataSpec: one switch; the transport reports records with one or two     *)
(* counters, each 0..MaxVal; the user updates from the main view, switches *)
(* modes and takes baselines.                                              *)
(* StoreSpec: the same switch with records that differ in their counter    *)
(* names alone; the user also opens and closes the Details popup, which    *)
(* clears the stores, and rediscovers.                                     *)

DataFabrics == {<<SwitchB>>}

DataRecords ==
    Records({"xmt_bytes"}, MaxVal)
      \cup {r \in Records({"xmt_bytes", "rcv_bytes"}, MaxVal) : r["xmt_bytes"] = 1}

\* records that differ in their counter names alone
StoreRecords == Records({"xmt_bytes"}, 0) \cup Records({"xmt_bytes", "rcv_bytes"}, 0)

DataInit == InitWith({DefaultConfig})

DataNext ==
    \/ Key_u(TermHeight)
    \/ Key_W(TermHeight)
    \/ Key_D(TermHeight)
    \/ Key_B(TermHeight)
    \/ HandleDiscovery(TermHeight)
    \/ HandleCounters(TermHeight)
    \/ DiscRecv
    \/ DiscReply(DataFabrics)
    \/ CtrRecv
    \/ CtrReply(DataRecords)

DataSpec == DataInit /\ [][DataNext]_vars

StoreNext ==
    \/ Key_u(TermHeight)
    \/ Key_W(TermHeight)
    \/ Key_D(TermHeight)
    \/ Key_B(TermHeight)
    \/ Key_d(TermHeight)
    \/ KeyEnter(TermHeight)
    \/ HandleDiscovery(TermHeight)
    \/ HandleCounters(TermHeight)
    \/ DiscRecv
    \/ DiscReply(DataFabrics)
    \/ CtrRecv
    \/ CtrReply(StoreRecords)

StoreSpec == DataInit /\ [][StoreNext]_vars

\* this step of the coordinator consumes a Response
ConsumesResponse ==
    /\ ConsumesCounterReply
    /\ Head(ctr_rx).type = "Response"

\* C5: in every reachable state the keys of display_counters are keys of
\* current_counters, and every entry of display_counters has the counter
\* names of the entry of current_counters under the same key.
C5_DisplayKeys ==
    /\ DOMAIN display_counters \subseteq DOMAIN current_counters
    /\ \A lp \in DOMAIN display_counters :
          DOMAIN display_counters[lp] = DOMAIN current_counters[lp]

\* a Delta or Baseline display whose entry has lost a counter name of the
\* older record it was computed against
C5_Witness ==
    /\ counter_mode # "Whole"
    /\ display_counters # EmptyStore
    /\ \E lp \in DOMAIN display_counters \cap DOMAIN previous_counters :
          /\ DOMAIN previous_counters[lp] # DOMAIN current_counters[lp]
          /\ "rcv_bytes" \in DOMAIN previous_counters[lp]
    /\ baseline_counters # EmptyStore
    /\ nodes = <<>>

\* what a Response is displayed as against the store old
DisplayedAgainst(old) ==
    /\ DOMAIN display_counters' = DOMAIN current_counters'
    /\ \A lp \in DOMAIN current_counters' :
          IF lp \in DOMAIN old
          THEN /\ DOMAIN display_counters'[lp] = DOMAIN current_counters'[lp]
               /\ \A k \in DOMAIN current_counters'[lp] :
                     LET cur == current_counters'[lp][k]
                         prev == IF k \in DOMAIN old[lp] THEN old[lp][k] ELSE 0
                     IN  display_counters'[lp][k] =
                            IF prev <= cur THEN cur - prev ELSE cur
          ELSE display_counters'[lp] = current_counters'[lp]

\* C6: a Response consumed in Delta mode is displayed, per (lid, port) that
\* previous and current share and per counter name k of the new record, as
\* current[k] - previous[k] when previous[k] <= current[k] and as current[k]
\* otherwise, previous[k] being 0 when absent; names only the old record has
\* do not appear; a (lid, port) previous lacks is displayed raw.  Baseline
\* mode does the same against baseline.
C6_DeltaDisplay ==
    [][ConsumesResponse =>
          /\ previous_counters' = current_counters
          /\ current_counters' = Head(ctr_rx).counters
          /\ (counter_mode = "Delta" => DisplayedAgainst(current_counters))
          /\ (counter_mode = "Baseline" => DisplayedAgainst(baseline_counters))]_vars

\* a Delta display with a counter that fell (shown raw), and a counter name
\* the previous record lacked
C6_Witness ==
    /\ counter_mode = "Delta"
    /\ status.msg = "Updated counters"
    /\ \E lp \in DOMAIN display_counters \cap DOMAIN previous_counters :
          /\ previous_counters[lp]["xmt_bytes"] > current_counters[lp]["xmt_bytes"]
          /\ current_counters[lp]["xmt_bytes"] > 0
          /\ display_counters[lp]["xmt_bytes"] = current_counters[lp]["xmt_bytes"]
          /\ "rcv_bytes" \in DOMAIN display_counters[lp]
          /\ "rcv_bytes" \notin DOMAIN previous_counters[lp]

\* the coordinator is running with the main view active
BPressable == running /\ active_popup = "None"

\* a 'B' press that leaves a copy of current_counters in baseline_counters
BPressSnapshots ==
    /\ Key_B(TermHeight)
    /\ baseline_counters' = current_counters
    /\ counter_mode' = "Baseline"

\* C7: every 'B' pressed in the main view, also in Baseline mode, makes
\* baseline_counters a copy of current_counters; the first Response consumed
\* after that is displayed as 0 for every counter that still has its value of
\* the snapshot and as the increment for every counter that grew.
C7_BaselineSnapshot ==
    /\ [](BPressable => ENABLED BPressSnapshots)
    /\ [][(ConsumesResponse /\ counter_mode = "Baseline"
             /\ baseline_counters = current_counters)
            => \A lp \in DOMAIN current_counters' \cap DOMAIN baseline_counters :
                \A k \in DOMAIN current_counters'[lp] \cap DOMAIN baseline_counters[lp] :
                   LET cur == current_counters'[lp][k]
                       base == baseline_counters[lp][k]
                   IN  /\ (cur = base => display_counters'[lp][k] = 0)
                       /\ (cur > base => display_counters'[lp][k] = cur - base)]_vars

\* the first Response after a baseline taken of a non-empty store: one counter
\* unchanged and non-zero, displayed 0, another grown, displayed as the growth
C7_Witness ==
    /\ counter_mode = "Baseline"
    /\ status.msg = "Updated counters"
    /\ previous_counters = baseline_counters
    /\ \E lp \in DOMAIN display_counters \cap DOMAIN baseline_counters :
          /\ DOMAIN baseline_counters[lp] = {"xmt_bytes", "rcv_bytes"}
          /\ DOMAIN current_counters[lp] = {"xmt_bytes", "rcv_bytes"}
          /\ baseline_counters[lp]["xmt_bytes"] > 0
          /\ current_counters[lp]["xmt_bytes"] = baseline_counters[lp]["xmt_bytes"]
          /\ display_counters[lp]["xmt_bytes"] = 0
          /\ baseline_counters[lp]["rcv_bytes"] > 0
          /\ current_counters[lp]["rcv_bytes"] > baseline_counters[lp]["rcv_bytes"]
          /\ display_counters[lp]["rcv_bytes"] =
                current_counters[lp]["rcv_bytes"] - baseline_counters[lp]["rcv_bytes"]

\* C8: a Response consumed in Whole mode leaves display_counters equal to
\* current_counters, the store of the Response; so does the same Response
\* consumed a second time.
C8_WholeDisplay ==
    [][(ConsumesResponse /\ counter_mode = "Whole")
          => /\ current_counters' = Head(ctr_rx).counters
             /\ display_counters' = current_counters'
             /\ (Head(ctr_rx).counters = current_counters
                   => display_counters' = current_counters)]_vars

\* the same non-zero store consumed twice in Whole mode
C8_Witness ==
    /\ counter_mode = "Whole"
    /\ status.msg = "Updated counters"
    /\ current_counters # EmptyStore
    /\ previous_counters = current_counters
    /\ display_counters = current_counters
    /\ \E lp \in DOMAIN current_counters : current_counters[lp]["xmt_bytes"] > 0

----------------------------------------------------------------------------
(* NavSpec: up to three switches, terminals with room for one or two rows; *)
(* the user navigates, filters, opens and closes the popups and            *)
(* rediscovers; a discovery may come back with fewer switches or none.     *)

NavFabrics == {<<SwitchA, SwitchB, SwitchC>>, <<SwitchB>>}

NavHeights == {8, 9}

NavInit == InitWith({DefaultConfig})

NavKey ==
    \E h \in NavHeights :
        \/ KeyUp(h)
        \/ KeyDown(h)
        \/ KeyPageUp(h)
        \/ KeyPageDown(h)
        \/ KeyHome(h)
        \/ KeyEnd(h)

NavNext ==
    \/ \E h \in NavHeights : KeyUp(h)
    \/ \E h \in NavHeights : KeyDown(h)
    \/ \E h \in NavHeights : KeyPageUp(h)
    \/ \E h \in NavHeights : KeyPageDown(h)
    \/ \E h \in NavHeights : KeyHome(h)
    \/ \E h \in NavHeights : KeyEnd(h)
    \/ \E h \in NavHeights : KeySlash(h)
    \/ \E h \in NavHeights : KeyChar("a", h)
    \/ \E h \in NavHeights : KeyBackspace(h)
    \/ \E h \in NavHeights : KeyEnter(h)
    \/ \E h \in NavHeights : Key_d(h)
    \/ \E h \in NavHeights : HandleDiscovery(h)
    \/ DiscRecv
    \/ DiscReply(NavFabrics)

NavSpec == NavInit /\ [][NavNext]_vars

\* the selection and the scroll offset are within the filtered rows and the
\* rows the table shows
NavInRange ==
    LET len == filtered_len(nodes, search_value)
    IN  /\ 0 <= selected
        /\ selected < Max(1, len)
        /\ table_offset <= selected
        /\ selected < table_offset + visible_rows
        /\ table_offset <= SatSub(len, visible_rows)

\* C9, as claimed: every navigation key handled in the main view, from every
\* reachable state, leaves 0 <= selected < max(1, filtered_len),
\* table_offset <= selected < table_offset + visible_rows and
\* table_offset <= filtered_len - visible_rows.
C9_AsClaimed ==
    [][(NavKey /\ active_popup = "None") => NavInRange']_vars

\* what the navigation arms do establish: the same, when a node is known
C9_WithNodes ==
    [][(NavKey /\ active_popup = "None" /\ nodes # <<>>) => NavInRange']_vars

----------------------------------------------------------------------------
(* Spec: two switches; the user filters, opens and closes the Details      *)
(* popup, moves the selection, rediscovers and updates, and a discovery    *)
(* may come back without the switch the popup was opened for.  The targets *)
(* of a request depend on the popup, the selection and the nodes alone, so *)
(* the scenario ends with the request in the counter inbox.                *)

SpecFabrics == {<<SwitchA, SwitchB>>, <<SwitchB>>}

Init == InitWith({DefaultConfig})

Next ==
    \/ KeySlash(TermHeight)
    \/ KeyChar("a", TermHeight)
    \/ KeyEnter(TermHeight)
    \/ KeyDown(TermHeight)
    \/ Key_u(TermHeight)
    \/ Key_d(TermHeight)
    \/ HandleDiscovery(TermHeight)
    \/ DiscRecv
    \/ DiscReply(SpecFabrics)

Spec == Init /\ [][Next]_vars

\* the targets of the request a step sends
SentTargets == ev_ctr'[Len(ev_ctr')].lid_ports

\* targets are exactly (lid, port.number) of every port of node, in port order
TargetsPortsOf(targets, node) ==
    /\ Len(targets) = Len(node.ports)
    /\ \A p \in 1..Len(node.ports) :
          targets[p] = [lid |-> node.lid, number |-> node.ports[p].number]
    /\ \A p \in 1..Len(targets) : targets[p].number # AGG_COUNTERS_PORT

\* targets are exactly (lid, 255) of every known node, in node order
TargetsAggregate(targets) ==
    /\ Len(targets) = Len(nodes)
    /\ \A i \in 1..Len(nodes) :
          targets[i] = [lid |-> nodes[i].lid, number |-> AGG_COUNTERS_PORT]

\* the known nodes with the guid of the cached selection
SelectedKnown ==
    IF selected_node = <<>> THEN <<>>
    ELSE SelectSeq(nodes, LAMBDA n : n.guid = selected_node[1].guid)

\* C10, as the code has it: a CounterRequest sent while the Details popup is
\* open and a selection is cached whose node is known targets exactly
\* (lid, port.number) of every port of that node and no (lid, 255); every
\* other CounterRequest, among them one sent from a Details popup left
\* without a selection, targets exactly (lid, 255) of every known node.
C10_Targets ==
    [][SendsCounterRequest =>
          IF active_popup = "Details" /\ SelectedKnown # <<>>
          THEN TargetsPortsOf(SentTargets, SelectedKnown[1])
          ELSE TargetsAggregate(SentTargets)]_vars

\* a request for the two ports of the switch the Details popup is open for is
\* queued
C10_Witness ==
    /\ active_popup = "Details"
    /\ selected_node # <<>>
    /\ pending_counter_update
    /\ ev_ctr = <<CounterRequest(<<[lid |-> 1, number |-> 1],
                                   [lid |-> 1, number |-> 2]>>)>>

\* C10 as claimed: every CounterRequest sent while the Details popup is open
\* targets the ports of the selected node and no (lid, 255); every other
\* CounterRequest targets (lid, 255) of every known node.
C10_AsClaimed ==
    [][SendsCounterRequest =>
          IF active_popup = "Details"
          THEN /\ SelectedKnown # <<>>
               /\ TargetsPortsOf(SentTargets, SelectedKnown[1])
          ELSE TargetsAggregate(SentTargets)]_vars

----------------------------------------------------------------------------
(* Quit *)

\* a step of the coordinator that queues Event::App(Quit): the quit keys
QueuesQuit == Len(receiver') > Len(receiver)

\* q is p with messages appended
Extends(q, p) == Len(q) >= Len(p) /\ SubSeq(q, 1, Len(p)) = p

\* a service takes the Exit sentinel from its inbox
DiscTakesExit ==
    ev_disc # <<>> /\ Head(ev_disc).type = "Exit" /\ ev_disc' = Tail(ev_disc)

CtrTakesExit ==
    ev_ctr # <<>> /\ Head(ev_ctr).type = "Exit" /\ ev_ctr' = Tail(ev_ctr)

\* a service takes a Request from its inbox
DiscTakesRequest ==
    ev_disc # <<>> /\ Head(ev_disc).type = "Request" /\ ev_disc' = Tail(ev_disc)

CtrTakesRequest ==
    ev_ctr # <<>> /\ Head(ev_ctr).type = "Request" /\ ev_ctr' = Tail(ev_ctr)

\* C12: the quit key sends Exit to both services; a service that takes Exit
\* from its inbox terminates, and does so only between requests; a request
\* taken before Exit is answered; a terminated service takes nothing more
\* from its inbox and sends nothing more; once the quit key has been handled
\* the coordinator loop stops and both services terminate.
C12_QuitStopsAll ==
    /\ [][QueuesQuit => /\ ev_disc' = Append(ev_disc, Exit)
                        /\ ev_ctr' = Append(ev_ctr, Exit)]_vars
    /\ [][DiscTakesExit => disc_pc = "recv" /\ disc_pc' = "exited"]_vars
    /\ [][CtrTakesExit => ctr_pc = "recv" /\ ctr_pc' = "exited"]_vars
    /\ [][DiscTakesRequest => disc_pc = "recv" /\ disc_pc' = "get_nodes"]_vars
    /\ [][CtrTakesRequest => ctr_pc = "recv" /\ ctr_pc' = "get_counters"]_vars
    /\ [][disc_pc = "get_nodes"
            => \/ disc_pc' = "get_nodes" /\ disc_rx' = disc_rx
               \/ disc_pc' = "recv" /\ Len(disc_rx') = Len(disc_rx) + 1]_vars
    /\ [][ctr_pc = "get_counters"
            => \/ ctr_pc' = "get_counters" /\ ctr_rx' = ctr_rx
               \/ ctr_pc' = "recv" /\ Len(ctr_rx') = Len(ctr_rx) + 1]_vars
    /\ [][disc_pc = "exited"
            => disc_pc' = "exited" /\ Extends(ev_disc', ev_disc)
               /\ Extends(disc_rx, disc_rx')]_vars
    /\ [][ctr_pc = "exited"
            => ctr_pc' = "exited" /\ Extends(ev_ctr', ev_ctr)
               /\ Extends(ctr_rx, ctr_rx')]_vars
    /\ (disc_pc = "get_nodes") ~> (disc_pc = "recv")
    /\ (ctr_pc = "get_counters") ~> (ctr_pc = "recv")
    /\ (receiver # <<>>)
          ~> (~running /\ disc_pc = "exited" /\ ctr_pc = "exited")

\* everything has stopped, the counter service having answered nothing that
\* was queued behind the sentinel
C12_Witness ==
    /\ ~running
    /\ disc_pc = "exited"
    /\ ctr_pc = "exited"
    /\ \E i \in 1..Len(ev_ctr) : ev_ctr[i].type = "Request"

----------------------------------------------------------------------------
(* Failed discovery *)

\* what the discovery service sends when get_nodes could not open the
\* adapter, open the SMP port or register its agent
FailedDiscoveryReplies ==
    {DiscoveryResponse(get_nodes(FALSE, f, config.include_hcas)) : f \in DiscFabrics}

\* the coordinator consumes the reply of a failed discovery
ConsumesFailedDiscovery ==
    /\ disc_rx # <<>>
    /\ disc_rx' = Tail(disc_rx)
    /\ Head(disc_rx) \in FailedDiscoveryReplies

\* C13, as claimed: when the coordinator handles the outcome of a discovery
\* that failed, the node list is not modified and the status becomes
\* "Discovery failed".
C13_AsClaimed ==
    [][ConsumesFailedDiscovery
         => nodes' = nodes /\ status'.msg = "Discovery failed"]_vars

----------------------------------------------------------------------------
(* CtrSvcSpec: the counter service on its own.  A client has queued one    *)
(* request of up to MaxTargets distinct targets, some with port numbers    *)
(* no u8 holds; the pool has one to three threads.                         *)

MaxTargets == 4

CtrSvcTargets ==
    {[lid |-> 1, number |-> 1], [lid |-> 2, number |-> AGG_COUNTERS_PORT],
     [lid |-> 2, number |-> 256], [lid |-> 3, number |-> -1]}

CtrSvcRequests ==
    {lps \in UNION {[1..n -> CtrSvcTargets] : n \in 0..MaxTargets} :
        \A i, j \in 1..Len(lps) : lps[i] = lps[j] => i = j}

CtrSvcConfigs == {[DefaultConfig EXCEPT !.threads = w] : w \in 1..3}

CtrSvcRecords == Records({"xmt_bytes"}, 1)

CtrSvcInit ==
    /\ config \in CtrSvcConfigs
    /\ running = TRUE
    /\ nodes = <<>>
    /\ selected_node = <<>>
    /\ display_counters = EmptyStore
    /\ current_counters = EmptyStore
    /\ previous_counters = EmptyStore
    /\ baseline_counters = EmptyStore
    /\ pending_counter_update = TRUE
    /\ counter_mode = "Whole"
    /\ status = Status("Counter update requested...", 0)
    /\ tick = 0
    /\ auto_update = FALSE
    /\ auto_update_interval = config.update_interval
    /\ auto_update_counter = 0
    /\ sort_column = 0
    /\ sort_ascending = FALSE
    /\ search_value = <<>>
    /\ table_offset = 0
    /\ popup_table_offset = 0
    /\ popup_selected = 0
    /\ visible_rows = 0
    /\ selected = 0
    /\ active_popup = "None"
    /\ receiver = <<>>
    /\ ev_disc = <<>>
    /\ disc_rx = <<>>
    /\ \E lps \in CtrSvcRequests : ev_ctr = <<CounterRequest(lps)>>
    /\ ctr_rx = <<>>
    /\ disc_pc = "recv"
    /\ ctr_pc = "recv"
    /\ ctr_req = <<>>
    /\ pool = IdlePool
    /\ elapsed = 0

CtrSvcNext ==
    \/ CtrRecv
    \/ CtrReply(CtrSvcRecords)

CtrSvcSpec == CtrSvcInit /\ [][CtrSvcNext]_vars

TargetKey(lp) == <<lp.lid, lp.number>>

\* target i of the request in service is served: the HCA and the pool are
\* there, the worker of its chunk opened its port and registered its agent,
\* its port number fits a u8 and its query succeeded
Served(i, opened, open_ok, query_ok) ==
    /\ opened
    /\ ChunkOf(i, ChunkSize(Len(ctr_req), config.threads)) \in open_ok
    /\ ctr_req[i].number \in 0..255
    /\ i \in query_ok

par_chunks(lps, chunk_size) ==
    [c \in 1..NumChunks(Len(lps), chunk_size) |->
        SubSeq(lps, (c - 1) * chunk_size + 1, Min(c * chunk_size, Len(lps)))]

RECURSIVE Flatten(_)
Flatten(seqs) ==
    IF seqs = <<>> THEN <<>> ELSE Head(seqs) \o Flatten(Tail(seqs))

CeilDiv(a, b) == (a + b - 1) \div b

\* C15, as claimed: the targets of the request in service are split into at
\* most W = max(1, threads) chunks, each of ceil(len/W) targets but the last,
\* which may be shorter, and the chunks in order make up the request.
C15_AsClaimed ==
    ctr_pc = "get_counters" =>
      LET n == Len(ctr_req)
          W == Max(1, config.threads)
          chunks == par_chunks(ctr_req, ChunkSize(n, config.threads))
      IN  /\ Len(chunks) <= W
          /\ \A c \in 1..Len(chunks) :
               /\ Len(chunks[c]) >= 1
               /\ Len(chunks[c]) <= CeilDiv(n, W)
               /\ c < Len(chunks) => Len(chunks[c]) = CeilDiv(n, W)
          /\ Flatten(chunks) = ctr_req

\* what the split does guarantee: contiguous non-empty chunks in order that
\* make up the request, each of max(1, floor(len/W)) targets but the last
ChunksCoverInOrder ==
    ctr_pc = "get_counters" =>
      LET n == Len(ctr_req)
          W == Max(1, config.threads)
          chunks == par_chunks(ctr_req, ChunkSize(n, config.threads))
      IN  /\ \A c \in 1..Len(chunks) :
               /\ Len(chunks[c]) >= 1
               /\ Len(chunks[c]) <= Max(1, n \div W)
               /\ c < Len(chunks) => Len(chunks[c]) = Max(1, n \div W)
          /\ Flatten(chunks) = ctr_req

----------------------------------------------------------------------------
(* FilterSpec: three switches, two of them with "a" in their description;  *)
(* the user types any of the filter characters into the Search popup,      *)
(* closes it, and changes the sort column and direction.                   *)

FilterFabrics == {<<SwitchA, SwitchB, SwitchC>>, <<SwitchB>>}

FilterInit == InitWith({DefaultConfig})

FilterNext ==
    \/ KeySlash(TermHeight)
    \/ \E c \in FilterChars : KeyChar(c, TermHeight)
    \/ KeyBackspace(TermHeight)
    \/ KeyEnter(TermHeight)
    \/ Key_s(TermHeight)
    \/ Key_S(TermHeight)
    \/ HandleDiscovery(TermHeight)
    \/ DiscRecv
    \/ DiscReply(FilterFabrics)

FilterSpec == FilterInit /\ [][FilterNext]_vars

\* the rows render_nodes_table builds for the current state
TableRows ==
    node_info(nodes, search_value, display_counters, counter_mode, sort_column,
              sort_ascending)

\* the nodes whose description contains the filter, letters compared without
\* regard to case
MatchingNodes ==
    {i \in 1..Len(nodes) :
       \E k \in 0..Len(nodes[i].node_description) :
          /\ k + Len(search_value) <= Len(nodes[i].node_description)
          /\ \A j \in 1..Len(search_value) :
               Lower(nodes[i].node_description[k + j]) = Lower(search_value[j])}

\* C16: the main table has one row per node whose description matches the
\* filter without regard to case, one row per node when the filter does not
\* compile, and filtered_len is the number of rows of the table.
C16_RowCount ==
    /\ ValidRegex(search_value) => Len(TableRows) = Cardinality(MatchingNodes)
    /\ ~ValidRegex(search_value) => Len(TableRows) = Len(nodes)
    /\ filtered_len(nodes, search_value) = Len(TableRows)

\* the filter "A" shows the two switches with "a" in their description
C16_Witness ==
    /\ search_value = <<"A">>
    /\ Len(nodes) = 3
    /\ Len(TableRows) = 2
    /\ filtered_len(nodes, search_value) = 2

\* a filter that does not compile shows every node
C16_WitnessInvalid ==
    /\ ~ValidRegex(search_value)
    /\ Len(nodes) = 3
    /\ Len(TableRows) = 3

Reverse(seq) == [i \in 1..Len(seq) |-> seq[Len(seq) + 1 - i]]

\* the rows of the main table as they would be in the given direction
RowsInDirection(asc) ==
    node_info(nodes, search_value, display_counters, counter_mode, sort_column, asc)

\* rows that are Equal under the sort column keep the order the nodes have in
\* the node list
StableRows(rows) ==
    \A i, j \in 1..Len(rows) :
        (i < j /\ RowOrdering(rows[i], rows[j], sort_column, TRUE) = 0) =>
            \E a, b \in 1..Len(nodes) :
                a < b /\ nodes[a].guid = rows[i].guid /\ nodes[b].guid = rows[j].guid

\* C17, as claimed: under every sort column 1..8 the descending table is the
\* exact reverse of the ascending table, and rows with equal keys keep their
\* order.
C17_AsClaimed ==
    sort_column \in 1..8 =>
        /\ RowsInDirection(FALSE) = Reverse(RowsInDirection(TRUE))
        /\ StableRows(RowsInDirection(TRUE))
        /\ StableRows(RowsInDirection(FALSE))

\* what the sort does guarantee: it is stable in both directions, so the
\* descending table is the reverse of the ascending one up to the order of
\* rows with equal keys
SortStableBothWays ==
    sort_column \in 1..8 =>
        /\ StableRows(RowsInDirection(TRUE))
        /\ StableRows(RowsInDirection(FALSE))
        /\ \A i \in 1..Len(RowsInDirection(TRUE)) :
              RowOrdering(RowsInDirection(FALSE)[i],
                          Reverse(RowsInDirection(TRUE))[i], sort_column, TRUE) = 0

----------------------------------------------------------------------------
(* ConvSpec: the traversal reports switches, a CA and a router in varying  *)
(* order; one switch has a port for every way the chain from a port to the *)
(* description of its peer's node can be whole or broken; HCAs are         *)
(* included or not.                                                        *)

RouterE == RawNode("Router", 5, 5, <<"b">>, <<RawPort(1, Linked(<<"a">>))>>)

Bit(n, k) == (n \div (2 ^ k)) % 2 = 1

\* port i has the chain whose six links are the bits of i - 1
SwitchF ==
    RawNode("Switch", 6, 6, <<"b">>,
            [i \in 1..64 |->
               RawPort(i, Chain(Bit(i - 1, 0), Bit(i - 1, 1), Bit(i - 1, 2),
                                Bit(i - 1, 3), Bit(i - 1, 4),
                                IF Bit(i - 1, 5) THEN <<<<"a">>>> ELSE <<>>))])

ConvFabrics ==
    {<<SwitchA, HostD, RouterE, SwitchF>>, <<HostD, SwitchF, SwitchA>>, <<RouterE>>}

ConvConfigs == {[DefaultConfig EXCEPT !.include_hcas = b] : b \in BOOLEAN}

ConvInit == InitWith(ConvConfigs)

ConvNext ==
    \/ Key_d(TermHeight)
    \/ HandleDiscovery(TermHeight)
    \/ DiscRecv
    \/ DiscReply(ConvFabrics)

ConvSpec == ConvInit /\ [][ConvNext]_vars

\* the raw nodes of f that the conversion keeps
Kept(f) ==
    {i \in 1..Len(f) : \/ f[i].node_type = "Switch"
                       \/ f[i].node_type = "CA" /\ config.include_hcas}

\* C18: whatever topology the traversal has left when the service converts
\* it, the result has, in input order, one node per Switch and, if HCAs are
\* included, one node with no ports per CA, and nothing for any other type;
\* guid, lid and description are those of the raw node, and a switch has one
\* port per raw port.
C18_Conversion ==
    disc_pc = "get_nodes" =>
      \A f \in ConvFabrics :
        LET out == convert_fabric_nodes(f, config.include_hcas)
            pos(i) == Cardinality({j \in Kept(f) : j <= i})
        IN  /\ Len(out) = Cardinality(Kept(f))
            /\ \A i \in Kept(f) :
                 /\ out[pos(i)].guid = f[i].node_guid
                 /\ out[pos(i)].lid = f[i].lid
                 /\ out[pos(i)].node_description = f[i].description
                 /\ f[i].node_type = "CA" => out[pos(i)].ports = <<>>
                 /\ f[i].node_type = "Switch" =>
                      Len(out[pos(i)].ports) = Len(f[i].ports)

\* with HCAs included, a reply lists the CA, without ports, between the two
\* switches it was reported between, and the router nowhere
C18_Witness ==
    /\ config.include_hcas
    /\ disc_rx # <<>>
    /\ LET ns == Head(disc_rx).nodes
       IN  /\ Len(ns) = 3
           /\ ns[1].guid = SwitchA.node_guid
           /\ ns[2].guid = HostD.node_guid
           /\ ns[2].ports = <<>>
           /\ ns[3].guid = SwitchF.node_guid

\* every link of the chain behind a raw port is there
ChainWhole(c) ==
    /\ c.remote_port
    /\ c.peer_alive
    /\ c.peer_readable
    /\ c.parent_alive
    /\ c.parent_readable
    /\ c.description # <<>>

\* C19: whatever topology the traversal has left when the service converts
\* it, every port of a switch is converted, in order and with its number;
\* its remote description is the description of the node owning the peer
\* port when the whole chain resolves and empty when any link is missing.
C19_RemoteDescription ==
    disc_pc = "get_nodes" =>
      \A f \in ConvFabrics : \A n \in 1..Len(f) :
        f[n].node_type = "Switch" =>
          LET ps == convert_ports(f[n])
          IN  /\ Len(ps) = Len(f[n].ports)
              /\ \A i \in 1..Len(ps) :
                   LET c == f[n].ports[i].remote
                   IN  /\ ps[i].number = f[n].ports[i].number
                       /\ ChainWhole(c) =>
                            ps[i].remote_node_description = c.description[1]
                       /\ ~ChainWhole(c) => ps[i].remote_node_description = <<>>

\* the coordinator holds the switch with every kind of chain: all its ports
\* are there, the one whose chain is whole names its peer's node, and one
\* whose peer has no description has the empty string
C19_Witness ==
    \E n \in 1..Len(nodes) :
        /\ nodes[n].guid = SwitchF.node_guid
        /\ Len(nodes[n].ports) = Len(SwitchF.ports)
        /\ nodes[n].ports[64].remote_node_description = <<"a">>
        /\ nodes[n].ports[32].remote_node_description = <<>>
        /\ nodes[n].ports[1].remote_node_description = <<>>

----------------------------------------------------------------------------
(* The rows of the Details popup *)

\* render_details_popup draws only with a cached selection
DetailsDrawn == active_popup = "Details" /\ selected_node # <<>>

\* node_info of render_details_popup has one row per entry of
\* display_counters, identified here by the entry's key
DetailsRowKeys == DOMAIN display_counters

\* the NODE cell of the row for key (lid, port): the remote description of
\* that port of the first node with that lid, or ""
DetailsLabel(k) ==
    LET ns == SelectSeq(nodes, LAMBDA n : n.lid = k[1])
        ps == IF ns = <<>> THEN <<>>
              ELSE SelectSeq(ns[1].ports, LAMBDA p : p.number = k[2])
    IN  IF ps = <<>> THEN <<>> ELSE ps[1].remote_node_description

\* the orders sort_by(port) can leave the rows in: the map is iterated in no
\* particular order and rows of equal port keep the order of the iteration
DetailsRowOrders ==
    {s \in [1..Cardinality(DetailsRowKeys) -> DetailsRowKeys] :
        /\ \A i, j \in DOMAIN s : s[i] = s[j] => i = j
        /\ \A i, j \in DOMAIN s : i < j => s[i][2] <= s[j][2]}

\* the label the selected node's port list gives to port number
SelectedNodeLabel(number) ==
    LET ns == SelectSeq(nodes, LAMBDA n : n.guid = selected_node[1].guid)
        ps == IF ns = <<>> THEN <<>>
              ELSE SelectSeq(ns[1].ports, LAMBDA p : p.number = number)
    IN  IF ps = <<>> THEN <<>> ELSE ps[1].remote_node_description

\* C20, as claimed: while the Details popup is drawn its rows are exactly the
\* display entries whose port is not 255, in ascending order of port, each
\* labelled with the remote description of that port of the selected node.
C20_AsClaimed ==
    DetailsDrawn =>
        /\ DetailsRowKeys = {k \in DOMAIN display_counters : k[2] # AGG_COUNTERS_PORT}
        /\ \A s \in DetailsRowOrders :
              \A i, j \in DOMAIN s : i < j => s[i][2] <= s[j][2]
        /\ \A k \in DetailsRowKeys : DetailsLabel(k) = SelectedNodeLabel(k[2])

----------------------------------------------------------------------------
(* The mode keys and the Response arm as functions of the part of the App  *)
(* they read and write, so that two orders of handling can be compared.    *)

\* the counter fields of App, which the mode keys and handle_counters_update
\* read and write (the status text the latter sets depends on the reply only)
Stores ==
    [counter_mode |-> counter_mode,
     display_counters |-> display_counters,
     current_counters |-> current_counters,
     previous_counters |-> previous_counters,
     baseline_counters |-> baseline_counters,
     pending_counter_update |-> pending_counter_update]

\* the 'W', 'D' and 'B' arms of the main view
apply_mode_key(st, mode) ==
    [st EXCEPT !.counter_mode = mode,
               !.baseline_counters = IF mode = "Baseline" THEN st.current_counters
                                     ELSE st.baseline_counters]

\* handle_counters_update
apply_counters_update(st, counters) ==
    [st EXCEPT !.previous_counters = st.current_counters,
               !.current_counters = counters,
               !.display_counters = DisplayFor(st.counter_mode, counters,
                                               st.current_counters,
                                               st.baseline_counters),
               !.pending_counter_update = FALSE]

\* the coordinator is in the main view with a Response to consume and no
\* Quit queued
ResponseDeliverable ==
    /\ running
    /\ active_popup = "None"
    /\ receiver = <<>>
    /\ ctr_rx # <<>>
    /\ Head(ctr_rx).type = "Response"

\* the two functions are the handlers: every step that consumes a Response or
\* handles a mode key changes the fields as they say
StoresFollowHandlers ==
    /\ [][ConsumesResponse
            => Stores' = apply_counters_update(Stores, Head(ctr_rx).counters)]_vars
    /\ [][(active_popup = "None" /\ counter_mode' # counter_mode)
            => Stores' = apply_mode_key(Stores, counter_mode')]_vars

\* C11, as claimed, for the mode keys against a CounterReply: in every
\* reachable state in which a Response can be consumed, handling the key and
\* then the Response leaves the App as handling the Response and then the key.
C11_AsClaimed ==
    ResponseDeliverable =>
        \A mode \in {"Whole", "Delta", "Baseline"} :
            apply_counters_update(apply_mode_key(Stores, mode), Head(ctr_rx).counters)
              = apply_mode_key(apply_counters_update(Stores, Head(ctr_rx).counters), mode)

----------------------------------------------------------------------------
(* ErrSpec: one switch; the transport reports records over two error       *)
(* counters of the performance MAD and one traffic counter, each 0 or 1.   *)

ErrFabrics == {<<SwitchB>>}

ErrRecords ==
    Records({"symbol_errors", "rcv_local_phy_errors"}, 1)
      \cup Records({"qp1_drops", "xmt_bytes"}, 1)

ErrInit == InitWith({DefaultConfig})

ErrNext ==
    \/ Key_u(TermHeight)
    \/ HandleDiscovery(TermHeight)
    \/ HandleCounters(TermHeight)
    \/ DiscRecv
    \/ DiscReply(ErrFabrics)
    \/ CtrRecv
    \/ CtrReply(ErrRecords)

ErrSpec == ErrInit /\ [][ErrNext]_vars

\* the nine counters named as the error counters
NineErrorCounters ==
    << "symbol_errors", "link_recovers", "link_downed", "rcv_errors",
       "phys_rcv_errors", "switch_rel_errors", "excess_overrun_errors",
       "vl15dropped", "qp1_drops" >>

\* C21, as claimed: for every record on display, error_count is the sum of
\* the nine named counters, a missing one counting as zero and every other
\* key ignored, and error_strings names exactly those of the nine that are
\* greater than 0.
C21_AsClaimed ==
    \A k \in DOMAIN display_counters :
        LET rec == display_counters[k]
        IN  /\ count_errors(rec) =
                 SumSeq([i \in 1..Len(NineErrorCounters) |->
                           IF NineErrorCounters[i] \in DOMAIN rec
                           THEN rec[NineErrorCounters[i]] ELSE 0])
            /\ Range(get_error_strings(rec)) =
                 {e \in Range(NineErrorCounters) : e \in DOMAIN rec /\ rec[e] > 0}

----------------------------------------------------------------------------
(* TestSpec: the program started with --service-type test.  The discovery  *)
(* issued at start-up is answered by TestDiscoverService while ticks       *)
(* arrive.                                                                 *)

\* for i in 1..=1600
TEST_SWITCHES == 1600

\* ports_per_node: 64
TEST_PORTS_PER_NODE == 64

\* TestDiscoverService::get_nodes
test_get_nodes ==
    [i \in 1..TEST_SWITCHES |->
        [guid |-> i,
         node_description |-> <<"s", i>>,
         ports |-> [p \in 1..TEST_PORTS_PER_NODE |->
                      [number |-> p - 1, remote_node_description |-> <<>>]],
         lid |-> 16 + i]]

\* TestDiscoverService::run: the Response is sent
TestDiscReply ==
    /\ disc_pc = "get_nodes"
    /\ disc_rx' = Append(disc_rx, DiscoveryResponse(test_get_nodes))
    /\ disc_pc' = "recv"
    /\ UNCHANGED <<ev_disc, ev_ctr, ctr_rx, ctr_pc, ctr_req, pool>>
    /\ svcFrame

TestInit == InitWith({DefaultConfig})

TestNext ==
    \/ Tick(TermHeight)
    \/ HandleDiscovery(TermHeight)
    \/ DiscRecv
    \/ TestDiscReply

TestSpec == TestInit /\ [][TestNext]_vars

\* C22, as claimed: the reply to the discovery issued at start-up carries 8
\* nodes whose LIDs are exactly 17..24, and once the coordinator has handled
\* it the node list has those 8 nodes and selected is 0.
C22_AsClaimed ==
    /\ \A i \in 1..Len(disc_rx) :
          disc_rx[i].type = "Response" =>
             /\ Len(disc_rx[i].nodes) = 8
             /\ {disc_rx[i].nodes[n].lid : n \in 1..Len(disc_rx[i].nodes)} = 17..24
    /\ nodes # <<>> => Len(nodes) = 8 /\ selected = 0

\* what does hold once the reply has been handled
TestDiscoveryHandled ==
    nodes # <<>> =>
        /\ Len(nodes) = TEST_SWITCHES
        /\ {nodes[n].lid : n \in 1..Len(nodes)} = 17..(16 + TEST_SWITCHES)
        /\ selected = 0
        /\ selected_node # <<>>
        /\ selected_node[1].lid = 17

----------------------------------------------------------------------------
(* Effects and frames of the reply handlers *)

----------------------------------------------------------------------------
(* Ticks *)

\* a step that handles a Tick: no other step changes tick
TickStep == tick' # tick

\* auto_update_counter as on_tick has it when it tests it
CounterAfterWrap ==
    IF tick' = 0 THEN auto_update_counter + 1 ELSE auto_update_counter

AutoUpdateDue ==
    /\ auto_update
    /\ ~pending_counter_update
    /\ CounterAfterWrap >= auto_update_interval

\* C24, as claimed: a Tick makes tick (tick + 1) mod 30, within 0..29, and
\* counts a wrap in auto_update_counter; it sends a counter request and
\* resets auto_update_counter to 0 exactly when auto_update is on, no update
\* is pending and the counter has reached the interval, and otherwise sends
\* nothing and leaves the counter.
C24_AsClaimed ==
    [][TickStep =>
         /\ tick' = (tick + 1) % TICK_RESET_INTERVAL
         /\ tick' \in 0..(TICK_RESET_INTERVAL - 1)
         /\ IF AutoUpdateDue
            THEN SendsCounterRequest /\ auto_update_counter' = 0
            ELSE ev_ctr' = ev_ctr /\ auto_update_counter' = CounterAfterWrap]_vars

\* what a Tick does guarantee: the same, but when the update is due and no
\* node is known the counter is reset and nothing is sent
TickWithNodesGuard ==
    [][TickStep =>
         /\ tick' = (tick + 1) % TICK_RESET_INTERVAL
         /\ tick' \in 0..(TICK_RESET_INTERVAL - 1)
         /\ IF AutoUpdateDue
            THEN /\ auto_update_counter' = 0
                 /\ IF nodes # <<>> THEN SendsCounterRequest ELSE ev_ctr' = ev_ctr
            ELSE ev_ctr' = ev_ctr /\ auto_update_counter' = CounterAfterWrap]_vars

----------------------------------------------------------------------------
(* Enter in the main view *)

\* the step handles Enter with no popup open
EnterInMain == active_popup = "None" /\ KeyEnter(TermHeight)

\* C25: Enter in the main view opens the Details popup exactly if the
\* filtered, sorted table has a row.  When it opens, display, current and
\* previous are empty and both popup cursors are 0, while the baseline and
\* the pending flag are as before; when the table has no row the popup stays
\* closed and no store is cleared.
C25_EnterOpensDetails ==
    [][EnterInMain =>
         IF Rows # <<>>
         THEN /\ active_popup' = "Details"
              /\ display_counters' = EmptyStore
              /\ current_counters' = EmptyStore
              /\ previous_counters' = EmptyStore
              /\ popup_selected' = 0
              /\ popup_table_offset' = 0
              /\ UNCHANGED <<baseline_counters, pending_counter_update>>
         ELSE /\ active_popup' = "None"
              /\ UNCHANGED <<display_counters, current_counters,
                             previous_counters, baseline_counters,
                             pending_counter_update>>]_vars

\* the popup has been opened over a baseline while an update was pending:
\* the baseline and the flag are still there
C25_Witness ==
    /\ active_popup = "Details"
    /\ display_counters = EmptyStore
    /\ current_counters = EmptyStore
    /\ previous_counters = EmptyStore
    /\ baseline_counters # EmptyStore
    /\ pending_counter_update

\* Enter found no row while samples were on display: the popup is closed
\* and the stores are as they were
C25_WitnessNoRow ==
    /\ active_popup = "None"
    /\ nodes = <<>>
    /\ selected_node = <<>>
    /\ display_counters # EmptyStore

----------------------------------------------------------------------------
(* Handling a discovery reply *)

\* the coordinator consumes a discovery Response
ConsumesDiscoveryResponse ==
    /\ disc_rx # <<>>
    /\ disc_rx' = Tail(disc_rx)
    /\ Head(disc_rx).type = "Response"

\* what handling a discovery Response leaves alone
DiscoveryReplyFrame ==
    UNCHANGED <<display_counters, current_counters, previous_counters,
                baseline_counters, counter_mode, pending_counter_update,
                search_value, active_popup>>

\* C26, as claimed: handling a discovery Response replaces nodes with the
\* reply's list; when that list is not empty selected becomes 0 and
\* selected_node is a node of the new list; the stores, the mode, the pending
\* flag, the filter and the popup are unchanged.
C26_AsClaimed ==
    [][ConsumesDiscoveryResponse =>
         /\ nodes' = Head(disc_rx).nodes
         /\ nodes' # <<>> =>
              /\ selected' = 0
              /\ selected_node' # <<>>
              /\ \E n \in 1..Len(nodes') : nodes'[n].guid = selected_node'[1].guid
         /\ DiscoveryReplyFrame]_vars

\* C26: handling a discovery Response replaces nodes with the reply's list;
\* when that list is not empty selected becomes 0 and selected_node becomes
\* the first row of the new list as filtered and sorted, or nothing when no
\* node of the new list passes the filter; the stores, the mode, the pending
\* flag, the filter and the popup are unchanged.
C26_DiscoveryReplyEffect ==
    [][ConsumesDiscoveryResponse =>
         /\ nodes' = Head(disc_rx).nodes
         /\ nodes' # <<>> =>
              LET rows == node_info(Head(disc_rx).nodes, search_value,
                                    display_counters, counter_mode, sort_column,
                                    sort_ascending)
              IN  /\ selected' = 0
                  /\ selected_node' = IF rows = <<>> THEN <<>> ELSE <<rows[1]>>
         /\ DiscoveryReplyFrame]_vars

\* a reply has been handled whose nodes the filter "a" all rejects, after the
\* selection had been moved: the list is replaced and nothing is selected
C26_Witness ==
    /\ status.msg = "Discovery complete: nodes found"
    /\ search_value = <<"a">>
    /\ Len(nodes) = 1
    /\ nodes[1].node_description = <<"b">>
    /\ selected = 0
    /\ selected_node = <<>>
    /\ pending_counter_update

----------------------------------------------------------------------------
(* A traversal that fails part-way *)

\* get_nodes with the result of seq_discover made explicit: traversed is
\* FALSE when seq_discover returns Err, which get_nodes prints and otherwise
\* ignores; fabric_nodes is what the traversal had put in fabric.nodes
get_nodes_after(opened, traversed, fabric_nodes, include_hcas) ==
    IF ~opened THEN <<>> ELSE convert_fabric_nodes(fabric_nodes, include_hcas)

\* what a traversal of topology f may have collected when it fails: any
\* proper prefix of f
PartialTopologies(f) == {SubSeq(f, 1, k) : k \in 0..(Len(f) - 1)}

\* C27, as claimed: whatever the traversal had collected when it failed, the
\* node list the service returns for the request in service is empty.
C27_AsClaimed ==
    disc_pc = "get_nodes" =>
        \A f \in DiscFabrics : \A part \in PartialTopologies(f) :
            get_nodes_after(TRUE, FALSE, part, config.include_hcas) = <<>>

----------------------------------------------------------------------------
(* Ports that a converted switch carries *)

\* a discovery::Port with its link state
RawPortIn(number, link_state, remote) ==
    [number |-> number, link_state |-> link_state, remote |-> remote]

\* a switch with its management port 0, a port that is down and two ports
\* that are up
SwitchG ==
    RawNode("Switch", 7, 7, <<"a">>,
            << RawPortIn(0, "Active", Unlinked), RawPortIn(1, "Down", Unlinked),
               RawPortIn(2, "Active", Linked(<<"b">>)),
               RawPortIn(3, "Init", Linked(<<"b">>)) >>)

\* the raw ports of switch raw that have the number of converted port p
RawPortsOf(raw, p) ==
    {i \in 1..Len(raw.ports) : raw.ports[i].number = p.number}

\* C28, as claimed: no switch the services hand to the coordinator has a
\* port numbered 0, and converting a raw switch leaves out port 0 and every
\* port whose link state is neither Active nor Init.
C28_AsClaimed ==
    /\ \A i \in 1..Len(disc_rx) :
          disc_rx[i].type = "Response" =>
             \A n \in 1..Len(disc_rx[i].nodes) :
                \A p \in 1..Len(disc_rx[i].nodes[n].ports) :
                   disc_rx[i].nodes[n].ports[p].number # 0
    /\ disc_pc = "get_nodes" =>
         LET ps == convert_ports(SwitchG)
         IN  \A p \in 1..Len(ps) :
                /\ ps[p].number # 0
                /\ \A i \in RawPortsOf(SwitchG, ps[p]) :
                      SwitchG.ports[i].link_state \in {"Active", "Init"}

\* the reply of the test transport, in which every switch has a port 0
TestReplyHasPortZero ==
    /\ disc_rx # <<>>
    /\ Head(disc_rx).nodes[1].ports[1].number = 0

\* conversion keeps every raw port, port 0 and the port that is down included
ConversionKeepsEveryPort ==
    [p \in 1..Len(SwitchG.ports) |-> convert_ports(SwitchG)[p].number]
        = [p \in 1..Len(SwitchG.ports) |-> SwitchG.ports[p].number]

----------------------------------------------------------------------------
(* DupSpec: the fabric reports two switches with the same LID; the user    *)
(* updates from the main view and switches to Delta mode.                  *)

\* a second switch that reports the LID of SwitchA
SwitchA2 == RawNode("Switch", 8, 1, <<"b">>, <<RawPort(1, Linked(<<"a">>))>>)

DupFabrics == {<<SwitchA, SwitchA2>>}

DupRecords == Records({"xmt_bytes"}, 1)

DupInit == InitWith({DefaultConfig})

DupNext ==
    \/ Key_u(TermHeight)
    \/ Key_D(TermHeight)
    \/ HandleDiscovery(TermHeight)
    \/ HandleCounters(TermHeight)
    \/ DiscRecv
    \/ DiscReply(DupFabrics)
    \/ CtrRecv
    \/ CtrReply(DupRecords)

DupSpec == DupInit /\ [][DupNext]_vars

\* the keys of the partial map of the worker of chunk c
PartialKeys(c, open_ok, query_ok) ==
    {TargetKey(ctr_req[i]) :
        i \in {j \in 1..Len(ctr_req) :
                 /\ Served(j, TRUE, open_ok, query_ok)
                 /\ ChunkOf(j, ChunkSize(Len(ctr_req), config.threads)) = c}}

\* C29, as claimed: for the request in service, whichever workers and
\* queries succeed, the partial maps of two different chunks share no key,
\* the merged store has exactly the keys of the partial maps and as many
\* entries as targets were queried successfully.
C29_AsClaimed ==
    ctr_pc = "get_counters" =>
      LET n == Len(ctr_req)
          chunks == 1..NumChunks(n, ChunkSize(n, config.threads))
      IN  \A open_ok \in SUBSET chunks, query_ok \in SUBSET (1..n),
             recs \in [1..n -> DupRecords] :
            LET out == get_counters(ctr_req, config.threads, TRUE, open_ok,
                                    query_ok, recs)
                served == {i \in 1..n : Served(i, TRUE, open_ok, query_ok)}
            IN  /\ \A c, d \in chunks :
                     c # d => PartialKeys(c, open_ok, query_ok)
                                \cap PartialKeys(d, open_ok, query_ok) = {}
                /\ DOMAIN out = UNION {PartialKeys(c, open_ok, query_ok) : c \in chunks}
                /\ Cardinality(DOMAIN out) = Cardinality(served)

----------------------------------------------------------------------------
(* get_counters step by step: the HCA and the rayon pool, then the chunk   *)
(* closures on the pool's threads, each with the MAD port it opens, then   *)
(* the reduced map sent as the Response.                                   *)

\* the threads rayon may choose when --threads is 0
MaxCpus == 2

\* ThreadPoolBuilder::num_threads(n).build(): n threads, or as many as rayon
\* chooses when n is 0
pool_sizes(threads) == IF threads = 0 THEN 1..MaxCpus ELSE {threads}

\* a pool thread that runs no chunk closure
FreeWorker == [chunk |-> 0, port |-> 0, pos |-> 0]

PoolChunkSize == ChunkSize(Len(ctr_req), pool.size)

PoolChunks == 1..NumChunks(Len(ctr_req), PoolChunkSize)

\* the chunks no closure has been called for yet
PendingChunks == PoolChunks \ (pool.done \cup {pool.workers[w].chunk : w \in 1..pool.size})

FirstOf(c) == (c - 1) * PoolChunkSize + 1

LastOf(c) == Min(c * PoolChunkSize, Len(ctr_req))

\* the workers as they would be if they shared the first port opened
worker_port_first_opened(p, w) == 1

\* the closure's local `port`: the one worker w opened for its chunk
worker_port(p, w) == p.workers[w].port

\* get_counters: get_ca and the pool build, either of which may fail
PoolBuild ==
    /\ ctr_pc = "get_counters"
    /\ pool.phase = "idle"
    /\ \E ok \in BOOLEAN, n \in pool_sizes(config.threads) :
          pool' = IF ok
                  THEN [IdlePool EXCEPT !.phase = "running", !.size = n,
                                        !.workers = [w \in 1..n |-> FreeWorker],
                                        !.recs = [i \in 1..Len(ctr_req) |-> <<>>]]
                  ELSE [IdlePool EXCEPT !.phase = "failed"]
    /\ UNCHANGED <<ev_disc, disc_rx, ev_ctr, ctr_rx, disc_pc, ctr_pc, ctr_req>>
    /\ svcFrame

\* a pool thread calls the closure for a chunk: open_port, register_agent
WorkerStart(w) ==
    /\ ctr_pc = "get_counters"
    /\ pool.phase = "running"
    /\ w \in 1..pool.size
    /\ pool.workers[w].chunk = 0
    /\ \E c \in PendingChunks, outcome \in {"open_failed", "register_failed", "ok"} :
          pool' =
            CASE outcome = "open_failed" ->
                   [pool EXCEPT !.done = @ \cup {c}]
              [] outcome = "register_failed" ->
                   [pool EXCEPT !.done = @ \cup {c},
                                !.ports = Append(@, [opened_by |-> w, used_by |-> {w},
                                                     open |-> FALSE, closed_by |-> w])]
              [] OTHER ->
                   [pool EXCEPT !.open_ok = @ \cup {c},
                                !.ports = Append(@, [opened_by |-> w, used_by |-> {w},
                                                     open |-> TRUE, closed_by |-> 0]),
                                !.workers[w] = [chunk |-> c, port |-> Len(pool.ports) + 1,
                                                pos |-> FirstOf(c)]]
    /\ UNCHANGED <<ev_disc, disc_rx, ev_ctr, ctr_rx, disc_pc, ctr_pc, ctr_req>>
    /\ svcFrame

\* the closure's loop body for the next target of its chunk
WorkerQuery(w, records) ==
    /\ ctr_pc = "get_counters"
    /\ pool.phase = "running"
    /\ w \in 1..pool.size
    /\ pool.workers[w].chunk # 0
    /\ pool.workers[w].pos <= LastOf(pool.workers[w].chunk)
    /\ LET i == pool.workers[w].pos
           s == worker_port(pool, w)
       IN  IF ctr_req[i].number \notin 0..255
           THEN pool' = [pool EXCEPT !.workers[w].pos = i + 1]
           ELSE \E ok \in BOOLEAN, rec \in records :
                   pool' = [pool EXCEPT
                              !.workers[w].pos = i + 1,
                              !.ports[s].used_by = @ \cup {w},
                              !.query_ok = IF ok THEN @ \cup {i} ELSE @,
                              !.recs[i] = IF ok THEN rec ELSE @]
    /\ UNCHANGED <<ev_disc, disc_rx, ev_ctr, ctr_rx, disc_pc, ctr_pc, ctr_req>>
    /\ svcFrame

\* the closure returns its local_map: its port goes out of scope
WorkerFinish(w) ==
    /\ ctr_pc = "get_counters"
    /\ pool.phase = "running"
    /\ w \in 1..pool.size
    /\ pool.workers[w].chunk # 0
    /\ pool.workers[w].pos > LastOf(pool.workers[w].chunk)
    /\ LET s == worker_port(pool, w)
       IN  pool' = [pool EXCEPT !.done = @ \cup {pool.workers[w].chunk},
                                !.ports[s].open = FALSE,
                                !.ports[s].closed_by = w,
                                !.workers[w] = FreeWorker]
    /\ UNCHANGED <<ev_disc, disc_rx, ev_ctr, ctr_rx, disc_pc, ctr_pc, ctr_req>>
    /\ svcFrame

\* get_counters returns (early, or with the reduced map) and run sends the
\* Response; the ports of the finished request stay on record in pool.ports
PoolReply ==
    /\ ctr_pc = "get_counters"
    /\ \/ pool.phase = "failed"
       \/ pool.phase = "running" /\ pool.done = PoolChunks
    /\ ctr_rx' = ctr_rx \o counters_reply(
                    get_counters(ctr_req, pool.size, pool.phase = "running",
                                 pool.open_ok, pool.query_ok, pool.recs))
    /\ ctr_pc' = "recv"
    /\ ctr_req' = <<>>
    /\ pool' = [pool EXCEPT !.phase = "idle"]
    /\ UNCHANGED <<ev_disc, disc_rx, ev_ctr, disc_pc>>
    /\ svcFrame

PoolRequests ==
    {<<>>,
     <<[lid |-> 1, number |-> 1]>>,
     <<[lid |-> 1, number |-> 1], [lid |-> 2, number |-> AGG_COUNTERS_PORT]>>,
     <<[lid |-> 1, number |-> 1], [lid |-> 2, number |-> AGG_COUNTERS_PORT],
       [lid |-> 3, number |-> -1]>>}

PoolConfigs == {[DefaultConfig EXCEPT !.threads = w] : w \in 0..2}

PoolRecords == Records({"xmt_bytes"}, 1)

PoolInit ==
    /\ config \in PoolConfigs
    /\ running = TRUE
    /\ nodes = <<>>
    /\ selected_node = <<>>
    /\ display_counters = EmptyStore
    /\ current_counters = EmptyStore
    /\ previous_counters = EmptyStore
    /\ baseline_counters = EmptyStore
    /\ pending_counter_update = TRUE
    /\ counter_mode = "Whole"
    /\ status = Status("Counter update requested...", 0)
    /\ tick = 0
    /\ auto_update = FALSE
    /\ auto_update_interval = config.update_interval
    /\ auto_update_counter = 0
    /\ sort_column = 0
    /\ sort_ascending = FALSE
    /\ search_value = <<>>
    /\ table_offset = 0
    /\ popup_table_offset = 0
    /\ popup_selected = 0
    /\ visible_rows = 0
    /\ selected = 0
    /\ active_popup = "None"
    /\ receiver = <<>>
    /\ ev_disc = <<>>
    /\ disc_rx = <<>>
    /\ \E lps \in PoolRequests : ev_ctr = <<CounterRequest(lps)>>
    /\ ctr_rx = <<>>
    /\ disc_pc = "recv"
    /\ ctr_pc = "recv"
    /\ ctr_req = <<>>
    /\ pool = IdlePool
    /\ elapsed = 0

PoolNext ==
    \/ CtrRecv
    \/ PoolBuild
    \/ \E w \in 1..MaxCpus : WorkerStart(w)
    \/ \E w \in 1..MaxCpus : WorkerQuery(w, PoolRecords)
    \/ \E w \in 1..MaxCpus : WorkerFinish(w)
    \/ PoolReply

PoolSpec == PoolInit /\ [][PoolNext]_vars

OpenPorts == {s \in 1..Len(pool.ports) : pool.ports[s].open}

\* every port on record was opened, used and closed by one worker, which
\* still runs the chunk it opened the port for while the port is open
PortsStayWithTheirWorker ==
    \A s \in 1..Len(pool.ports) :
        LET p == pool.ports[s]
        IN  /\ p.used_by = {p.opened_by}
            /\ IF p.open
               THEN /\ pool.phase = "running"
                    /\ pool.workers[p.opened_by].port = s
                    /\ \A w \in 1..pool.size : pool.workers[w].port = s => w = p.opened_by
               ELSE p.closed_by = p.opened_by

\* C30 as stated: during a counter request each performance session is
\* opened by, used by and released by a single chunk worker and never used
\* by two; never more sessions are open than the configured thread count;
\* none is open once the reply is published
C30_AsClaimed ==
    /\ PortsStayWithTheirWorker
    /\ Cardinality(OpenPorts) <= config.threads
    /\ ctr_pc # "get_counters" => OpenPorts = {}

\* C30, amended: during a counter request each performance session is opened
\* by, used by and released by a single chunk worker and never used by two;
\* never more sessions are open than the pool has threads, which is the
\* configured thread count unless that is 0, when rayon chooses the number;
\* none is open once the reply is published
C30_SessionsPerWorker ==
    /\ PortsStayWithTheirWorker
    /\ Cardinality(OpenPorts) <= pool.size
    /\ pool.phase = "running" /\ config.threads >= 1 => pool.size = config.threads
    /\ ctr_pc # "get_counters" => OpenPorts = {}

\* the reply is out after three chunks ran on two threads, two of them at
\* the same time, and every port they opened is closed
C30_Witness ==
    /\ ctr_pc = "recv"
    /\ ctr_rx # <<>>
    /\ pool.size = 2
    /\ Len(pool.ports) = 3
    /\ pool.ports[1].opened_by # pool.ports[2].opened_by
    /\ pool.ports[2].used_by # {}
    /\ OpenPorts = {}

\* two ports are open at once, each held by its own worker
C30_WitnessTwoOpen == Cardinality(OpenPorts) = 2

----------------------------------------------------------------------------
(* Quit keys and popups: the quit keys, the keys that open and close the   *)
(* popups, and the handling of the queued Quit.                            *)

QuitFabrics == {<<SwitchB>>}

QuitInit == InitWith({DefaultConfig})

QuitNext ==
    \/ Key_q(TermHeight)
    \/ KeyEsc(TermHeight)
    \/ KeyCtrlC(TermHeight)
    \/ KeyEnter(TermHeight)
    \/ KeySlash(TermHeight)
    \/ HandleQuit(TermHeight)
    \/ HandleDiscovery(TermHeight)
    \/ DiscRecv
    \/ DiscReply(QuitFabrics)

QuitSpec ==
    /\ QuitInit
    /\ [][QuitNext]_vars
    /\ WF_vars(HandleQuit(TermHeight))

\* a quit key of the main view is handled
QuitKeyInMain ==
    /\ active_popup = "None"
    /\ Key_q(TermHeight) \/ KeyEsc(TermHeight) \/ KeyCtrlC(TermHeight)

\* Esc or Enter is handled while a popup is active
ClosesPopup ==
    /\ active_popup \in {"Search", "Details"}
    /\ KeyEsc(TermHeight) \/ KeyEnter(TermHeight)

\* nothing is queued for the coordinator or the services, and the loop goes on
NoQuitSent ==
    /\ running' = running
    /\ receiver' = receiver
    /\ ev_disc' = ev_disc
    /\ ev_ctr' = ev_ctr

----------------------------------------------------------------------------
(* Replies after the quit key *)

\* a quit key has been handled: its Quit waits in the general channel, or
\* has been handled and the loop has stopped
QuitKeyHandled == receiver # <<>> \/ ~running

\* the part of the application state a reply is loaded into
ReplyState ==
    <<nodes, display_counters, current_counters, previous_counters,
      baseline_counters, pending_counter_update, status>>

\* C32: once the coordinator has handled a quit key no reply is taken from
\* disc_rx or ctr_rx any more, and nodes, the counter stores,
\* pending_counter_update and status change only by a key handled before the
\* queued Quit; once the loop has stopped nothing of the application changes.
C32_NoReplyAfterQuit ==
    /\ [][QuitKeyHandled
            => /\ Extends(disc_rx', disc_rx)
               /\ Extends(ctr_rx', ctr_rx)
               /\ ~HandleDiscovery(TermHeight)
               /\ ~HandleCounters(TermHeight)
               /\ \/ UNCHANGED ReplyState
                  \/ Key_u(TermHeight)
                  \/ KeyEnter(TermHeight)]_vars
    /\ [][~running => UNCHANGED <<appVars, receiver>>]_vars

\* the reply to the request of the main view is still queued when the loop
\* has stopped: the stores and the flag are as the keys left them
C32_Witness ==
    /\ ~running
    /\ active_popup = "None"
    /\ ctr_rx # <<>>
    /\ pending_counter_update
    /\ current_counters = EmptyStore

----------------------------------------------------------------------------
(* The test transport's counters.  With --service-type test the counter    *)
(* service is TestCountersService, which computes every record from the    *)
(* seconds elapsed since it was started.                                   *)

\* u64::MAX, narrowed to a word whose multiples in the metrics TLC computes
WordMax == 30000000

\* the seconds the service is observed for
MaxElapsed == 1

RECURSIVE wrapping_mul(_, _)
\* u64::saturating_mul as it would be if it wrapped
wrapping_mul(a, b) ==
    IF b = 0 THEN 0
    ELSE LET half == wrapping_mul(a, b \div 2)
         IN  (((2 * half) % (WordMax + 1)) + (b % 2) * (a % (WordMax + 1))) % (WordMax + 1)

\* u64::saturating_mul
saturating_mul(a, b) ==
    IF a = 0 \/ b = 0 THEN 0
    ELSE IF a > WordMax \div b THEN WordMax ELSE a * b

\* u64::saturating_add
saturating_add(a, b) == IF a > WordMax - b THEN WordMax ELSE a + b

TestCounterNames ==
    {"xmt_bytes", "rcv_bytes", "xmit_waits", "start_timestamp", "end_timestamp"}
       \cup Range(ERROR_COUNTERS)

\* the body of the loop of TestCountersService::get_counters: node_counters
\* of the target lp after secs seconds, the wall clock reading now_nanos
test_node_counters(secs, lp, now_nanos) ==
    LET sum == lp.lid + lp.number
        base == saturating_add(saturating_mul(secs, 1000), sum * 10)
    IN  [name \in TestCounterNames |->
           CASE name \in {"xmt_bytes", "rcv_bytes"} ->
                  saturating_mul(saturating_mul(base, 100000), sum)
             [] name = "xmit_waits" ->
                  saturating_mul(saturating_mul(base, 10000), sum)
             [] name = "start_timestamp" -> now_nanos
             [] name = "end_timestamp" -> now_nanos + 1000000000
             [] OTHER -> saturating_mul(base, lp.lid)]

\* TestCountersService::get_counters
test_get_counters(lps, secs, now_nanos) ==
    LET keys == {<<lps[i].lid, lps[i].number>> : i \in 1..Len(lps)}
    IN  [k \in keys |->
           test_node_counters(secs, [lid |-> k[1], number |-> k[2]], now_nanos)]

\* what Utc::now() may read, in nanoseconds
TestNows == {0, 1}

\* TestCountersService::run: get_counters returns and the Response is sent
TestCtrReply ==
    /\ ctr_pc = "get_counters"
    /\ \E secs \in elapsed..MaxElapsed, now_nanos \in TestNows :
          /\ elapsed' = secs
          /\ ctr_rx' = Append(ctr_rx,
                         CounterResponse(test_get_counters(ctr_req, secs, now_nanos)))
    /\ ctr_pc' = "recv"
    /\ ctr_req' = <<>>
    /\ UNCHANGED <<ev_disc, disc_rx, ev_ctr, disc_pc, pool, appVars, receiver>>

\* the first and the last switch of TestDiscoverService::get_nodes: the
\* topology the counters are sampled for
TestExcerpt == <<test_get_nodes[1], test_get_nodes[TEST_SWITCHES]>>

\* TestDiscoverService::run: the Response is sent, cut down to TestExcerpt
TestExcerptReply ==
    /\ disc_pc = "get_nodes"
    /\ disc_rx' = Append(disc_rx, DiscoveryResponse(TestExcerpt))
    /\ disc_pc' = "recv"
    /\ UNCHANGED <<ev_disc, ev_ctr, ctr_rx, ctr_pc, ctr_req, pool>>
    /\ svcFrame

TestCtrInit == InitWith({DefaultConfig})

TestCtrNext ==
    \/ Key_D(TermHeight)
    \/ KeyEnter(TermHeight)
    \/ Key_u(TermHeight)
    \/ HandleDiscovery(TermHeight)
    \/ HandleCounters(TermHeight)
    \/ DiscRecv
    \/ TestExcerptReply
    \/ CtrRecv
    \/ TestCtrReply

TestCtrSpec == TestCtrInit /\ [][TestCtrNext]_vars

\* the counters C33 names
SampledCounters == {"xmt_bytes", "rcv_bytes", "xmit_waits"} \cup Range(ERROR_COUNTERS)

\* the counters of the targets in service depend on the elapsed seconds and
\* the target alone, and do not fall as the seconds grow
TestCountersNeverFall ==
    ctr_pc = "get_counters" =>
      \A i \in 1..Len(ctr_req), e1 \in 0..MaxElapsed, e2 \in 0..MaxElapsed :
         e1 <= e2 =>
           \A name \in SampledCounters :
              /\ test_node_counters(e1, ctr_req[i], 0)[name]
                   <= test_node_counters(e2, ctr_req[i], 0)[name]
              /\ \A now_nanos \in TestNows :
                    test_node_counters(e1, ctr_req[i], now_nanos)[name]
                      = test_node_counters(e1, ctr_req[i], 0)[name]

\* C33: the test transport's counters are a function of (elapsed seconds,
\* lid, port) that never decreases as the seconds grow, saturated or not;
\* when a reply is handled in Delta mode, every target sampled twice in
\* succession has current >= previous and display = current - previous for
\* xmt_bytes, rcv_bytes, xmit_waits and every error counter.
C33_TestDeltas ==
    /\ []TestCountersNeverFall
    /\ [][ConsumesResponse /\ counter_mode = "Delta"
            => \A k \in DOMAIN current_counters' \cap DOMAIN previous_counters' :
                  \A name \in SampledCounters :
                     /\ current_counters'[k][name] >= previous_counters'[k][name]
                     /\ display_counters'[k][name]
                          = current_counters'[k][name] - previous_counters'[k][name]]_vars

\* a port sampled twice in Delta mode, its xmit_waits saturated at the second
\* sample and not at the first, is displayed with the difference
C33_Witness ==
    /\ counter_mode = "Delta"
    /\ \E k \in DOMAIN display_counters \cap DOMAIN previous_counters :
          /\ current_counters[k]["xmit_waits"] = WordMax
          /\ previous_counters[k]["xmit_waits"] < WordMax
          /\ display_counters[k]["xmit_waits"]
               = WordMax - previous_counters[k]["xmit_waits"]
          /\ display_counters[k]["symbol_errors"] > 0

----------------------------------------------------------------------------
(* Updates without nodes: 'u', the auto-update and the Details popup while *)
(* discoveries, some of which find nothing, replace the node list.  The    *)
(* counter service is not scheduled: what is sent stays in its inbox.      *)

EmptyFabrics == {<<SwitchB>>}

EmptyInit == InitWith({[DefaultConfig EXCEPT !.update_interval = 1]})

EmptyNext ==
    \/ Tick(TermHeight)
    \/ Key_U(TermHeight)
    \/ Key_u(TermHeight)
    \/ Key_d(TermHeight)
    \/ KeyEnter(TermHeight)
    \/ HandleDiscovery(TermHeight)
    \/ DiscRecv
    \/ DiscReply(EmptyFabrics)

EmptySpec == EmptyInit /\ [][EmptyNext]_vars

\* C34: no counter request is sent while the node list is empty: a step
\* taken with no nodes, the 'u' key of either view and the tick among them,
\* adds nothing to the counter inbox and does not set pending_counter_update,
\* and every request in the inbox has targets.
C34_NoRequestWithoutNodes ==
    /\ [][nodes = <<>> => /\ ~SendsCounterRequest
                          /\ pending_counter_update' => pending_counter_update]_vars
    /\ [][nodes = <<>> /\ (Key_u(TermHeight) \/ Tick(TermHeight))
            => ev_ctr' = ev_ctr /\ pending_counter_update' = pending_counter_update]_vars
    /\ [](\A i \in 1..Len(ev_ctr) :
             ev_ctr[i].type = "Request" => ev_ctr[i].lid_ports # <<>>)

\* 'u' was pressed in the Details popup after a discovery that found nothing
\* had emptied the node list: nothing was sent
C34_Witness ==
    /\ nodes = <<>>
    /\ active_popup = "Details"
    /\ status = Status("No nodes discovered yet, cannot update counters.", 0)
    /\ ~pending_counter_update
    /\ ev_ctr = <<>>

----------------------------------------------------------------------------
(* The selected row and the window of the main table *)

\* the selected row is one of the rows from table_offset on that fit
SelectedInWindow ==
    /\ table_offset <= selected
    /\ selected < table_offset + Max(1, visible_rows)

\* Esc or Enter closes the Search popup
ClosesSearch == active_popup = "Search" /\ active_popup' = "None"

\* C35, as claimed: right after a non-empty DiscoveryReply is handled and
\* right after the Search popup is closed, no popup being active and the
\* filtered rows non-empty, table_offset <= selected < table_offset +
\* max(1, visible_rows).
C35_AsClaimed ==
    [][/\ (ConsumesDiscoveryResponse /\ nodes' # <<>>) \/ ClosesSearch
       /\ active_popup' = "None"
       /\ filtered_len(nodes', search_value') > 0
       => SelectedInWindow']_vars

----------------------------------------------------------------------------
(* The spacing of automatic updates: ticks with the default interval of    *)
(* two wraps, 'U' toggling the auto-update, manual updates and replies.    *)

AutoFabrics == {<<SwitchB>>}

AutoRecords == Records({"xmt_bytes"}, 0)

AutoInit == InitWith({DefaultConfig})

AutoNext ==
    \/ Tick(TermHeight)
    \/ Key_U(TermHeight)
    \/ Key_u(TermHeight)
    \/ HandleDiscovery(TermHeight)
    \/ HandleCounters(TermHeight)
    \/ DiscRecv
    \/ DiscReply(AutoFabrics)
    \/ CtrRecv
    \/ CtrReply(AutoRecords)

AutoSpec == AutoInit /\ [][AutoNext]_vars

\* the tick path sends a counter request
AutoSend == TickStep /\ SendsCounterRequest

----------------------------------------------------------------------------
(* Keys in the Search popup: every key the main view has an arm for is     *)
(* pressed in either view, while discoveries replace or empty the node     *)
(* list.                                                                   *)

SearchFabrics == {<<SwitchA, SwitchB, SwitchC>>}

SearchInit == InitWith({DefaultConfig})

\* a key press is handled
SearchKey ==
    \/ KeySlash(TermHeight)
    \/ KeyChar("a", TermHeight)
    \/ KeyBackspace(TermHeight)
    \/ KeyEnter(TermHeight)
    \/ KeyEsc(TermHeight)
    \/ KeyDown(TermHeight)
    \/ Key_d(TermHeight)
    \/ Key_u(TermHeight)
    \/ Key_U(TermHeight)
    \/ Key_D(TermHeight)
    \/ Key_B(TermHeight)
    \/ Key_s(TermHeight)
    \/ Key_S(TermHeight)
    \/ Key_q(TermHeight)
    \/ KeyCtrlC(TermHeight)

\* the keys that only matter to this popup are pressed while it is open
InSearch == active_popup = "Search"

SearchNext ==
    \/ KeySlash(TermHeight)
    \/ KeyChar("a", TermHeight)
    \/ KeyBackspace(TermHeight)
    \/ KeyEnter(TermHeight)
    \/ KeyEsc(TermHeight)
    \/ KeyDown(TermHeight)
    \/ Key_d(TermHeight)
    \/ InSearch /\ Key_u(TermHeight)
    \/ InSearch /\ Key_U(TermHeight)
    \/ InSearch /\ Key_D(TermHeight)
    \/ InSearch /\ Key_B(TermHeight)
    \/ InSearch /\ Key_s(TermHeight)
    \/ InSearch /\ Key_S(TermHeight)
    \/ InSearch /\ Key_q(TermHeight)
    \/ InSearch /\ KeyCtrlC(TermHeight)
    \/ HandleDiscovery(TermHeight)
    \/ DiscRecv
    \/ DiscReply(SearchFabrics)

SearchSpec == SearchInit /\ [][SearchNext]_vars

\* what no key handled in the Search popup touches
SearchKeyFrame ==
    UNCHANGED <<running, receiver, ev_disc, ev_ctr, nodes, counter_mode,
                sort_column, sort_ascending, auto_update, display_counters,
                current_counters, previous_counters, baseline_counters,
                pending_counter_update, status, tick, auto_update_counter,
                table_offset, popup_selected, popup_table_offset>>

\* the key edits the filter string or does nothing
EditsFilter ==
    /\ \/ \E c \in {"a", "d", "u", "U", "D", "B", "s", "S", "q", "c", "/"} :
             search_value' = Append(search_value, c)
       \/ search_value' = SubSeq(search_value, 1, Len(search_value) - 1)
       \/ search_value' = search_value
    /\ UNCHANGED <<active_popup, selected, selected_node>>

----------------------------------------------------------------------------
(* The cursors of the Details popup: a switch with three ports, a popup    *)
(* with room for two rows, and per-port queries that may fail, so that a   *)
(* reply can carry fewer entries than the one before.                      *)

SwitchH ==
    RawNode("Switch", 9, 9, <<"a">>,
            <<RawPort(1, Linked(<<"b">>)), RawPort(2, Linked(<<"b">>)),
              RawPort(3, Linked(<<"b">>))>>)

CursorFabrics == {<<SwitchH>>}

CursorRecords == Records({"xmt_bytes"}, 0)

\* a terminal whose Details popup has room for two rows
PopupHeight == 7

CursorInit == InitWith({DefaultConfig})

CursorNext ==
    \/ KeyEnter(PopupHeight)
    \/ KeyDown(PopupHeight)
    \/ KeyUp(PopupHeight)
    \/ Key_u(PopupHeight)
    \/ HandleDiscovery(PopupHeight)
    \/ HandleCounters(PopupHeight)
    \/ DiscRecv
    \/ DiscReply(CursorFabrics)
    \/ CtrRecv
    \/ CtrReply(CursorRecords)

CursorSpec == CursorInit /\ [][CursorNext]_vars

\* this step handles Up or Down in the Details popup
DetailsNavKey ==
    /\ active_popup = "Details"
    /\ KeyDown(PopupHeight) \/ KeyUp(PopupHeight)

PopupInRange ==
    LET len == Cardinality(DOMAIN display_counters)
    IN  /\ popup_selected < Max(1, len)
        /\ popup_table_offset <= popup_selected
        /\ popup_selected < popup_table_offset + Max(1, visible_rows)

\* C38, as claimed: after any Up or Down key handled in the Details popup,
\* popup_selected < max(1, number of display entries) and
\* popup_table_offset <= popup_selected < popup_table_offset +
\* max(1, visible_rows), also after a reply with fewer entries than the
\* previous one.
C38_AsClaimed ==
    [][DetailsNavKey => PopupInRange']_vars

\* what the two arms do establish: the ranges are kept by Up and Down when
\* they held before the key and the display store is non-empty
C38_RangesKept ==
    [][DetailsNavKey /\ PopupInRange /\ display_counters # EmptyStore
         => PopupInRange']_vars

\* the popup has been scrolled to the third of three entries
C38_Witness ==
    /\ active_popup = "Details"
    /\ Cardinality(DOMAIN display_counters) = 3
    /\ popup_selected = 2
    /\ popup_table_offset = 1
    /\ visible_rows = 2

----------------------------------------------------------------------------
(* The mode keys and the display store *)

\* this step handles 'W', 'D' or 'B' in the main view
ModeKey ==
    /\ active_popup = "None"
    /\ Key_W(TermHeight) \/ Key_D(TermHeight) \/ Key_B(TermHeight)

----------------------------------------------------------------------------
(* The display store while the Details popup is open *)

\* (lid, port) is a port of the node the popup was opened for
PortOfSelected(k) ==
    /\ selected_node # <<>>
    /\ k[1] = selected_node[1].lid
    /\ \E n \in 1..Len(nodes) :
          /\ nodes[n].guid = selected_node[1].guid
          /\ \E p \in 1..Len(nodes[n].ports) : nodes[n].ports[p].number = k[2]

\* C40, as claimed: while the Details popup is open every key of the display
\* store has the LID of the selected node and a port of that node, so the
\* reply to an aggregate request that was pending when Enter was pressed is
\* not loaded into the stores the popup shows.
C40_AsClaimed ==
    active_popup = "Details" =>
        \A k \in DOMAIN display_counters : PortOfSelected(k)

====
